---- MODULE Spec2Model ----
(***************************************************************************)
(* to402-cli: the project generator (src/src/generator.ts) and the proxy   *)
(* server it emits.                                                        *)
(*                                                                         *)
(* Generated text is modelled structurally: a source fragment is a         *)
(* sequence of statements, an environment file a sequence of lines, a      *)
(* name a sequence of tokens (so that the sanitising of custom keys is     *)
(* computed character by character).  JavaScript's undefined is the value  *)
(* Undef; a string is falsy when it is Undef or "".                        *)
(***************************************************************************)
EXTENDS Integers, Sequences, FiniteSets, TLC

VARIABLES
    projectConfig, \* the ProjectConfig handed to generateProject
    pc,           \* position of generateProject
    disk,         \* output directory: file name -> [state, content]
    dirs,         \* directories created under outputDir
    error,        \* the error generateProject rejected with, <<>> when none
    thrown,       \* history: the errors raised inside its try block, with the step
    logged,       \* TRUE once the success line was printed
    clock,        \* wall clock of the generating process
    run,          \* number of the current generateProject call
    firstOutput,  \* the files the first call left behind
    processEnv,   \* generated server: process.env after dotenv's config()
    bootPc,       \* generated server: position of the module's top-level code
    exitCode,     \* generated server: <<>> while running, <<code>> once exited
    stderr,       \* generated server: the names printed on the "Missing:" line
    warnings,     \* generated server: the warnings of the declaration fragment
    app,          \* generated server: the registrations of the Hono application
    requests,     \* generated server: request id -> state of that request
    cli           \* the interactive set-up that collects the ProjectConfig

genVars == <<projectConfig, pc, disk, dirs, error, thrown, logged, clock, run, firstOutput>>

serverVars == <<processEnv, bootPc, exitCode, stderr, warnings, app, requests>>

cliVars == <<cli>>

vars == <<projectConfig, pc, disk, dirs, error, thrown, logged, clock, run, firstOutput,
          processEnv, bootPc, exitCode, stderr, warnings, app, requests, cli>>

(***************************************************************************)
(* Bounds                                                                  *)
(***************************************************************************)
MaxRuns == 2

MaxRequests == 2

MaxRoutes == 2

(***************************************************************************)
(* JavaScript values                                                       *)
(***************************************************************************)
Undef == "<undefined>"

Truthy(s) == s # Undef /\ s # ""

OrElse(s, fallback) == IF Truthy(s) THEN s ELSE fallback

Range(s) == {s[i] : i \in DOMAIN s}

\* String.prototype.toUpperCase / toLowerCase over the characters in use
UpperChar(c) ==
    CASE c = "a" -> "A"
      [] c = "k" -> "K"
      [] c = "x" -> "X"
      [] OTHER -> c

LowerChar(c) ==
    CASE c = "A" -> "a"
      [] c = "K" -> "k"
      [] c = "X" -> "x"
      [] OTHER -> c

toUpperCase(s) == [i \in DOMAIN s |-> UpperChar(s[i])]

toLowerCase(s) == [i \in DOMAIN s |-> LowerChar(s[i])]

UpperAlnum == {"A", "K", "X", "0", "1"}

LowerAlnum == {"a", "k", "x", "0", "1"}

\* s.replace(/[^A-Z0-9]/g, "_")
replaceNonUpperAlnum(s) == [i \in DOMAIN s |-> IF s[i] \in UpperAlnum THEN s[i] ELSE "_"]

\* s.replace(/[^a-z0-9]/g, "-")
replaceNonLowerAlnum(s) == [i \in DOMAIN s |-> IF s[i] \in LowerAlnum THEN s[i] ELSE "-"]

\* generateAuthConfig: sanitizedKey and envVarName of a custom header key
authConfigHeaderEnvVarName(key) ==
    LET sanitizedKey == replaceNonUpperAlnum(toUpperCase(key))
    IN  <<"CUSTOM_HEADER_">> \o sanitizedKey

\* generateAuthConfig: sanitizedKey and envVarName of a custom query key
authConfigQueryEnvVarName(key) ==
    LET sanitizedKey == replaceNonUpperAlnum(toUpperCase(key))
    IN  <<"CUSTOM_QUERY_">> \o sanitizedKey

\* a plausible slip: the name keeps the characters _ replaces, so that
\* different keys give different names
envHeaderEnvVarName_Unsanitized(key) == <<"CUSTOM_HEADER_">> \o toUpperCase(key)

\* generateEnv: envVarName of a custom header key, of a custom query key
envHeaderEnvVarName(key) == <<"CUSTOM_HEADER_">> \o replaceNonUpperAlnum(toUpperCase(key))

envQueryEnvVarName(key) == <<"CUSTOM_QUERY_">> \o replaceNonUpperAlnum(toUpperCase(key))

\* a plausible slip: the key is not uppercased before it is sanitised
envExampleHeaderEnvVarName_NoUpper(key) == <<"CUSTOM_HEADER_">> \o replaceNonUpperAlnum(key)

\* generateEnvExample: envVarName of a custom header key, of a custom query key
envExampleHeaderEnvVarName(key) ==
    <<"CUSTOM_HEADER_">> \o replaceNonUpperAlnum(toUpperCase(key))

envExampleQueryEnvVarName(key) ==
    <<"CUSTOM_QUERY_">> \o replaceNonUpperAlnum(toUpperCase(key))

\* generateEnvExample: your-${key.toLowerCase().replace(/[^a-z0-9]/g, "-")}-value-here
envExamplePlaceholder(key) ==
    <<"your-">> \o replaceNonLowerAlnum(toLowerCase(key)) \o <<"-value-here">>

(***************************************************************************)
(* Statements of the declaration fragment                                  *)
(***************************************************************************)
Stmt(op, bind, env, lit, key, uses) ==
    [op |-> op, bind |-> bind, env |-> env, lit |-> lit, key |-> key, uses |-> uses]

\* const <bind> = process.env.<env> || "<lit>";
ConstEnvOr(bind, env, lit) == Stmt("constEnvOr", bind, env, lit, <<>>, {})

\* const <bind> = process.env.<env>;
ConstEnv(bind, env) == Stmt("constEnv", bind, env, Undef, <<>>, {})

\* if (!a || !b) { console.warn(<lit>) }
WarnUnless(uses, lit) == Stmt("warnUnless", <<>>, <<>>, lit, <<>>, uses)

Comment(lit) == Stmt("comment", <<>>, <<>>, lit, <<>>, {})

\* const <bind>: Record<string, string> = {};
ConstObj(bind) == Stmt("constObj", bind, <<>>, Undef, <<>>, {})

\* <bind>["<key>"] = <from>;
AssignKey(bind, key, from) == Stmt("assignKey", bind, <<>>, Undef, key, {from})

\* headerKeys.map(key => `const ${envVarName} = process.env.${envVarName} || "${value}";
\* customHeaders["${key}"] = ${envVarName};`): two statements for every key
customHeaderDeclarations(auth) ==
    LET entries == auth.customHeaders.entries
    IN  [i \in 1..(2 * Len(entries)) |->
            LET key == entries[(i + 1) \div 2].key
                envVarName == authConfigHeaderEnvVarName(key)
            IN  IF i % 2 = 1
                THEN ConstEnvOr(envVarName, envVarName, entries[(i + 1) \div 2].value)
                ELSE AssignKey(<<"customHeaders">>, key, envVarName)]

\* paramKeys.map(key => ...): two statements for every key
customQueryDeclarations(auth) ==
    LET entries == auth.customQueryParams.entries
    IN  [i \in 1..(2 * Len(entries)) |->
            LET key == entries[(i + 1) \div 2].key
                envVarName == authConfigQueryEnvVarName(key)
            IN  IF i % 2 = 1
                THEN ConstEnvOr(envVarName, envVarName, entries[(i + 1) \div 2].value)
                ELSE AssignKey(<<"customQueryParams">>, key, envVarName)]

generateAuthConfig(auth) ==
    IF auth.type = "apiKey" THEN
        IF Truthy(auth.headerName) THEN
            << ConstEnvOr(<<"apiKeyHeader">>, <<"API_KEY_HEADER">>, auth.headerName),
               ConstEnv(<<"apiKeyValue">>, <<"API_KEY">>),
               WarnUnless({<<"apiKeyValue">>}, "API Key not set in environment variables") >>
        ELSE IF Truthy(auth.queryName) THEN
            << ConstEnvOr(<<"apiKeyQuery">>, <<"API_KEY_QUERY">>, auth.queryName),
               ConstEnv(<<"apiKeyValue">>, <<"API_KEY">>),
               WarnUnless({<<"apiKeyValue">>}, "API Key not set in environment variables") >>
        ELSE IF Truthy(auth.cookieName) THEN
            << ConstEnvOr(<<"apiKeyCookie">>, <<"API_KEY_COOKIE">>, auth.cookieName),
               ConstEnv(<<"apiKeyValue">>, <<"API_KEY">>),
               WarnUnless({<<"apiKeyValue">>}, "API Key not set in environment variables") >>
        ELSE <<>>
    ELSE IF auth.type = "bearer" THEN
        << ConstEnv(<<"bearerToken">>, <<"BEARER_TOKEN">>),
           WarnUnless({<<"bearerToken">>}, "Bearer Token not set in environment variables") >>
    ELSE IF auth.type = "basic" THEN
        << ConstEnv(<<"basicAuthUsername">>, <<"BASIC_AUTH_USERNAME">>),
           ConstEnv(<<"basicAuthPassword">>, <<"BASIC_AUTH_PASSWORD">>),
           WarnUnless({<<"basicAuthUsername">>, <<"basicAuthPassword">>},
                      "Basic Auth credentials not set in environment variables") >>
    ELSE IF auth.type = "custom" THEN
        (IF auth.customHeaders.present
         THEN << Comment("// Custom headers"), ConstObj(<<"customHeaders">>) >>
              \o customHeaderDeclarations(auth)
         ELSE <<>>)
        \o
        (IF auth.customQueryParams.present
         THEN << Comment("// Custom query parameters"), ConstObj(<<"customQueryParams">>) >>
              \o customQueryDeclarations(auth)
         ELSE <<>>)
    ELSE <<>>

(***************************************************************************)
(* Statements of the injection fragment                                    *)
(***************************************************************************)
\* op: what is done; target: the handler local mutated ("headers" / "url");
\* guard: the bindings tested; name: the binding holding the header / query /
\* cookie name (<<>> when a literal); lit: that literal; values: the
\* bindings the value is built from; obj: the map iterated.
Inject(op, target, guard, name, lit, values, obj) ==
    [op |-> op, target |-> target, guard |-> guard, name |-> name, lit |-> lit,
     values |-> values, obj |-> obj]

\* a plausible slip: no cookie branch, the header injection is the fallback
apiKeyAuthCode_NoCookieBranch(auth) ==
    IF Truthy(auth.queryName) /\ ~Truthy(auth.headerName) THEN
        << Inject("appendQuery", <<"url">>, {<<"apiKeyValue">>}, <<"apiKeyQuery">>,
                  Undef, <<<<"apiKeyValue">>>>, <<>>) >>
    ELSE
        << Inject("setHeader", <<"headers">>, {<<"apiKeyValue">>}, <<"apiKeyHeader">>,
                  Undef, <<<<"apiKeyValue">>>>, <<>>) >>

\* a plausible slip: the branches are tested cookie first
apiKeyAuthCode_CookieFirst(auth) ==
    IF Truthy(auth.cookieName) THEN
        << Inject("appendCookie", <<"headers">>, {<<"apiKeyValue">>}, <<"apiKeyCookie">>,
                  "Cookie", <<<<"apiKeyValue">>>>, <<>>) >>
    ELSE IF Truthy(auth.queryName) THEN
        << Inject("appendQuery", <<"url">>, {<<"apiKeyValue">>}, <<"apiKeyQuery">>,
                  Undef, <<<<"apiKeyValue">>>>, <<>>) >>
    ELSE IF Truthy(auth.headerName) THEN
        << Inject("setHeader", <<"headers">>, {<<"apiKeyValue">>}, <<"apiKeyHeader">>,
                  Undef, <<<<"apiKeyValue">>>>, <<>>) >>
    ELSE <<>>

\* the apiKey branch of generateAuthCode
apiKeyAuthCode(auth) ==
    IF Truthy(auth.headerName) THEN
        << Inject("setHeader", <<"headers">>, {<<"apiKeyValue">>}, <<"apiKeyHeader">>,
                  Undef, <<<<"apiKeyValue">>>>, <<>>) >>
    ELSE IF Truthy(auth.queryName) THEN
        << Inject("appendQuery", <<"url">>, {<<"apiKeyValue">>}, <<"apiKeyQuery">>,
                  Undef, <<<<"apiKeyValue">>>>, <<>>) >>
    ELSE IF Truthy(auth.cookieName) THEN
        << Inject("appendCookie", <<"headers">>, {<<"apiKeyValue">>}, <<"apiKeyCookie">>,
                  "Cookie", <<<<"apiKeyValue">>>>, <<>>) >>
    ELSE <<>>

generateAuthCode(auth) ==
    IF auth.type = "apiKey" THEN apiKeyAuthCode(auth)
    ELSE IF auth.type = "bearer" THEN
        << Inject("setBearer", <<"headers">>, {<<"bearerToken">>}, <<>>,
                  "Authorization", <<<<"bearerToken">>>>, <<>>) >>
    ELSE IF auth.type = "basic" THEN
        << Inject("setBasic", <<"headers">>, {<<"basicAuthUsername">>, <<"basicAuthPassword">>},
                  <<>>, "Authorization",
                  << <<"basicAuthUsername">>, <<"basicAuthPassword">> >>, <<>>) >>
    ELSE IF auth.type = "custom" THEN
        (IF auth.customHeaders.present
         THEN << Inject("forEachSetHeader", <<"headers">>, {}, <<>>, Undef, <<>>,
                        <<"customHeaders">>) >>
         ELSE <<>>)
        \o
        (IF auth.customQueryParams.present
         THEN << Inject("forEachAppendQuery", <<"url">>, {}, <<>>, Undef, <<>>,
                        <<"customQueryParams">>) >>
         ELSE <<>>)
    ELSE <<>>

(***************************************************************************)
(* Environment files                                                       *)
(***************************************************************************)
EnvComment(text) == [kind |-> "comment", name |-> <<>>, value |-> <<text>>]

EnvAssign(name, value) == [kind |-> "assign", name |-> name, value |-> value]

DefaultFacilitatorUrl == "https://facilitator.payai.network"

\* the authSection of generateEnv
generateEnvAuthSection(config) ==
    IF config.auth.defined THEN
        IF config.auth.type = "apiKey" THEN
            IF Truthy(config.auth.headerName) THEN
                << EnvComment("# API Key Authentication (Header)"),
                   EnvAssign(<<"API_KEY_HEADER">>, <<config.auth.headerName>>),
                   EnvAssign(<<"API_KEY">>, <<OrElse(config.auth.value, "")>>) >>
            ELSE IF Truthy(config.auth.queryName) THEN
                << EnvComment("# API Key Authentication (Query Parameter)"),
                   EnvAssign(<<"API_KEY_QUERY">>, <<config.auth.queryName>>),
                   EnvAssign(<<"API_KEY">>, <<OrElse(config.auth.value, "")>>) >>
            ELSE IF Truthy(config.auth.cookieName) THEN
                << EnvComment("# API Key Authentication (Cookie)"),
                   EnvAssign(<<"API_KEY_COOKIE">>, <<config.auth.cookieName>>),
                   EnvAssign(<<"API_KEY">>, <<OrElse(config.auth.value, "")>>) >>
            ELSE <<>>
        ELSE IF config.auth.type = "bearer" THEN
            << EnvComment("# Bearer Token Authentication"),
               EnvAssign(<<"BEARER_TOKEN">>, <<OrElse(config.auth.value, "")>>) >>
        ELSE IF config.auth.type = "basic" THEN
            << EnvComment("# Basic Authentication"),
               EnvAssign(<<"BASIC_AUTH_USERNAME">>, <<OrElse(config.auth.username, "")>>),
               EnvAssign(<<"BASIC_AUTH_PASSWORD">>, <<OrElse(config.auth.password, "")>>) >>
        ELSE IF config.auth.type = "custom" THEN
            (IF config.auth.customHeaders.present
             THEN << EnvComment("# Custom Headers Authentication") >>
                  \o [i \in DOMAIN config.auth.customHeaders.entries |->
                        LET e == config.auth.customHeaders.entries[i]
                        IN  EnvAssign(envHeaderEnvVarName(e.key), <<OrElse(e.value, "")>>)]
             ELSE <<>>)
            \o
            (IF config.auth.customQueryParams.present
             THEN << EnvComment("# Custom Query Parameters Authentication") >>
                  \o [i \in DOMAIN config.auth.customQueryParams.entries |->
                        LET e == config.auth.customQueryParams.entries[i]
                        IN  EnvAssign(envQueryEnvVarName(e.key), <<OrElse(e.value, "")>>)]
             ELSE <<>>)
        ELSE <<>>
    ELSE <<>>

\* the authSection of generateEnvExample
generateEnvExampleAuthSection(config) ==
    IF config.auth.defined THEN
        IF config.auth.type = "apiKey" THEN
            IF Truthy(config.auth.headerName) THEN
                << EnvComment("# API Key Authentication (Header)"),
                   EnvAssign(<<"API_KEY_HEADER">>, <<config.auth.headerName>>),
                   EnvAssign(<<"API_KEY">>, <<"your-api-key-here">>) >>
            ELSE IF Truthy(config.auth.queryName) THEN
                << EnvComment("# API Key Authentication (Query Parameter)"),
                   EnvAssign(<<"API_KEY_QUERY">>, <<config.auth.queryName>>),
                   EnvAssign(<<"API_KEY">>, <<"your-api-key-here">>) >>
            ELSE IF Truthy(config.auth.cookieName) THEN
                << EnvComment("# API Key Authentication (Cookie)"),
                   EnvAssign(<<"API_KEY_COOKIE">>, <<config.auth.cookieName>>),
                   EnvAssign(<<"API_KEY">>, <<"your-api-key-here">>) >>
            ELSE <<>>
        ELSE IF config.auth.type = "bearer" THEN
            << EnvComment("# Bearer Token Authentication"),
               EnvAssign(<<"BEARER_TOKEN">>, <<"your-bearer-token-here">>) >>
        ELSE IF config.auth.type = "basic" THEN
            << EnvComment("# Basic Authentication"),
               EnvAssign(<<"BASIC_AUTH_USERNAME">>, <<"your-username-here">>),
               EnvAssign(<<"BASIC_AUTH_PASSWORD">>, <<"your-password-here">>) >>
        ELSE IF config.auth.type = "custom" THEN
            (IF config.auth.customHeaders.present
             THEN << EnvComment("# Custom Headers Authentication") >>
                  \o [i \in DOMAIN config.auth.customHeaders.entries |->
                        LET e == config.auth.customHeaders.entries[i]
                        IN  EnvAssign(envExampleHeaderEnvVarName(e.key),
                                      envExamplePlaceholder(e.key))]
             ELSE <<>>)
            \o
            (IF config.auth.customQueryParams.present
             THEN << EnvComment("# Custom Query Parameters Authentication") >>
                  \o [i \in DOMAIN config.auth.customQueryParams.entries |->
                        LET e == config.auth.customQueryParams.entries[i]
                        IN  EnvAssign(envExampleQueryEnvVarName(e.key),
                                      envExamplePlaceholder(e.key))]
             ELSE <<>>)
        ELSE <<>>
    ELSE <<>>

\* the fixed lines around the auth section, the same in both files
EnvHead(config) ==
    << EnvComment("# x402 Configuration"),
       EnvAssign(<<"FACILITATOR_URL">>, <<OrElse(config.facilitatorUrl, DefaultFacilitatorUrl)>>),
       EnvAssign(<<"ADDRESS">>, <<config.sellerAddress>>),
       EnvAssign(<<"NETWORK">>, <<config.network>>),
       EnvComment("# API Configuration"),
       EnvAssign(<<"API_BASE_URL">>, <<config.baseUrl>>) >>

\* a plausible slip: the file is stamped with the time of generation
EnvTail_Stamped ==
    << EnvComment("# Server Configuration"),
       EnvAssign(<<"PORT">>, <<"4021">>),
       EnvComment(ToString(clock)) >>

EnvTail ==
    << EnvComment("# Server Configuration"),
       EnvAssign(<<"PORT">>, <<"4021">>) >>

generateEnv(config) ==
    [head |-> EnvHead(config),
     authSection |-> generateEnvAuthSection(config),
     tail |-> EnvTail]

\* a plausible slip: the example file is filled like .env
generateEnvExample_WithCredentials(config) ==
    [head |-> EnvHead(config),
     authSection |-> generateEnvAuthSection(config),
     tail |-> EnvTail]

generateEnvExample(config) ==
    [head |-> EnvHead(config),
     authSection |-> generateEnvExampleAuthSection(config),
     tail |-> EnvTail]

(***************************************************************************)
(* The server module                                                       *)
(***************************************************************************)
\* Route paths are sequences of tokens: "/api/*" is <<"/", "api", "/", "*">>
SlashStar == <<"/", "*">>

Star == <<"*">>

Thrown(message) == [threw |-> TRUE, message |-> message, value |-> <<>>]

Returned(value) == [threw |-> FALSE, message |-> "", value |-> <<value>>]

\* a plausible slip: the payment key keeps the path as configured
paymentPath_Unconverted(route) == route.path

\* let paymentPath = route.path; if (paymentPath === "/*") paymentPath = "*"
paymentPath(route) == IF route.path = SlashStar THEN Star ELSE route.path

\* one entry of the payment configuration per route, in route order;
\* network is the module binding of that name, not a literal
paymentConfigEntries(config) ==
    [i \in DOMAIN config.routes |->
        [key |-> paymentPath(config.routes[i]),
         price |-> config.routes[i].price,
         network |-> <<"network">>]]

\* let routePath = route.path; if (routePath === "/*") routePath = "*"
routePath(route) == IF route.path = SlashStar THEN Star ELSE route.path

\* a registration of the Hono application, app.use(...) or app.all(path, ...)
Registration(kind, path, handler, comment, payment, authCode, availableRoutes) ==
    [kind |-> kind, path |-> path, handler |-> handler, comment |-> comment,
     payment |-> payment, authCode |-> authCode, availableRoutes |-> availableRoutes]

\* a plausible slip: the handlers are registered last route first
proxyRoutes_Reversed(config) ==
    [i \in DOMAIN config.routes |->
        LET route == config.routes[Len(config.routes) + 1 - i]
        IN  Registration("all", routePath(route), "proxy", route.path, <<>>,
                         IF config.auth.defined THEN generateAuthCode(config.auth) ELSE <<>>,
                         <<>>)]

\* app.all("<routePath>", async (c) => { ... }) for every route, in route order
proxyRoutes(config) ==
    [i \in DOMAIN config.routes |->
        Registration("all", routePath(config.routes[i]), "proxy", config.routes[i].path,
                     <<>>,
                     IF config.auth.defined THEN generateAuthCode(config.auth) ELSE <<>>,
                     <<>>)]

\* app.use(paymentMiddleware(payTo, { ...entries }, { url: facilitatorUrl }))
paymentRegistration(config) ==
    Registration("use", Star, "paymentMiddleware", <<>>,
                 paymentConfigEntries(config), <<>>, <<>>)

\* the object the emitted literal { "<key>": { price, network }, ... } is at
\* run time: a later property with the same key replaces an earlier one
paymentConfigObject(entries) ==
    [k \in {entries[i].key : i \in DOMAIN entries} |->
        LET last == CHOOSE i \in DOMAIN entries :
                        /\ entries[i].key = k
                        /\ \A j \in DOMAIN entries : entries[j].key = k => j <= i
        IN  [price |-> entries[last].price, network |-> entries[last].network]]

\* a plausible slip: only the first route is listed
notFoundRegistration_FirstRouteOnly(config) ==
    Registration("all", Star, "notFound", <<>>, <<>>, <<>>,
                 <<[path |-> config.routes[1].path, price |-> config.routes[1].price]>>)

\* app.all("*", (c) => c.json({ error: "Not Found", ..., availableRoutes }, 404))
notFoundRegistration(config) ==
    Registration("all", Star, "notFound", <<>>, <<>>, <<>>,
                 [i \in DOMAIN config.routes |->
                    [path |-> config.routes[i].path, price |-> config.routes[i].price]])

\* a plausible slip: the payment middleware is registered after the routes
appRegistrations_RoutesFirst(config) ==
    proxyRoutes(config) \o <<paymentRegistration(config)>> \o <<notFoundRegistration(config)>>

\* the registrations in the order of the emitted text
appRegistrations(config) ==
    <<paymentRegistration(config)>> \o proxyRoutes(config) \o <<notFoundRegistration(config)>>

\* the text returned by generateServerFile, top to bottom
serverModule(config) ==
    [apiBaseUrlFallback |-> config.baseUrl,
     requiredEnv |-> << <<"FACILITATOR_URL">>, <<"ADDRESS">>, <<"NETWORK">> >>,
     authDeclaration |->
        IF config.auth.defined THEN generateAuthConfig(config.auth)
        ELSE <<Comment("// No authentication configured")>>,
     authLog |-> IF config.auth.defined THEN config.auth.type ELSE "No authentication configured",
     app |-> appRegistrations(config),
     listenLog |-> [i \in DOMAIN config.routes |->
                      [path |-> config.routes[i].path, price |-> config.routes[i].price]]]

\* a plausible slip: the route list is not checked
generateServerFile_Unchecked(config) == Returned(serverModule(config))

generateServerFile(config) ==
    IF Len(config.routes) = 0
    THEN Thrown("At least one route is required")
    ELSE Returned(serverModule(config))

(***************************************************************************)
(* The other output files                                                  *)
(***************************************************************************)
generatePackageJson(config) ==
    [name |-> config.projectName,
     version |-> "0.1.0",
     description |-> config.description,
     type |-> "module",
     scripts |-> [dev |-> "tsx src/index.ts",
                  build |-> "tsup src/index.ts --format cjs,esm --dts --outDir dist",
                  start |-> "node dist/index.js"],
     dependencies |-> {<<"@hono/node-server", "^1.13.8">>, <<"dotenv", "^16.4.7">>,
                       <<"hono", "^4.7.1">>, <<"x402-hono", "^0.7.1">>},
     devDependencies |-> {<<"@types/node", "^20.0.0">>, <<"tsup", "^7.2.0">>,
                          <<"tsx", "^4.7.0">>, <<"typescript", "^5.3.0">>}]

generateTsConfig ==
    [compilerOptions |-> [target |-> "ES2020", module |-> "ES2020",
                          moduleResolution |-> "bundler", esModuleInterop |-> TRUE,
                          forceConsistentCasingInFileNames |-> TRUE, skipLibCheck |-> TRUE,
                          strict |-> TRUE, resolveJsonModule |-> TRUE, baseUrl |-> ".",
                          types |-> <<"node">>],
     include |-> <<"src/**/*.ts">>]

generateReadme(config) ==
    [title |-> config.projectName,
     description |-> config.description,
     coinbaseNote |-> (config.network = "base" \/ config.network = "base-mainnet"),
     setupStep1 |-> IF config.auth.defined
                    THEN ".env file has been created with your authentication credentials"
                    ELSE "Copy .env.example to .env and configure your settings",
     baseUrl |-> config.baseUrl,
     routes |-> IF Len(config.routes) > 0
                THEN [i \in DOMAIN config.routes |->
                        <<config.routes[i].path, <<config.routes[i].price>> >>]
                ELSE << <<<<"All routes">>, <<config.defaultPrice>> >> >>]

(***************************************************************************)
(* Configuration records handed to the generator                          *)
(***************************************************************************)
NoMap == [present |-> FALSE, entries |-> <<>>]

MapOf(entries) == [present |-> TRUE, entries |-> entries]

Auth(type, value, username, password, headerName, queryName, cookieName, headers, params) ==
    [defined |-> TRUE, type |-> type, value |-> value, username |-> username,
     password |-> password, headerName |-> headerName, queryName |-> queryName,
     cookieName |-> cookieName, customHeaders |-> headers, customQueryParams |-> params]

\* config.auth === undefined
AuthUndefined ==
    [defined |-> FALSE, type |-> Undef, value |-> Undef, username |-> Undef,
     password |-> Undef, headerName |-> Undef, queryName |-> Undef,
     cookieName |-> Undef, customHeaders |-> NoMap, customQueryParams |-> NoMap]

KeyXA == <<"X", "-", "a">>

KeyXa == <<"x", "_", "A">>

KeyK1 == <<"k", "1">>

HeaderMaps ==
    { NoMap, MapOf(<<>>),
      MapOf(<<[key |-> KeyXA, value |-> "h1"]>>),
      MapOf(<<[key |-> KeyXA, value |-> "h9"]>>),
      MapOf(<<[key |-> KeyXA, value |-> "h1"], [key |-> KeyK1, value |-> ""]>>),
      MapOf(<<[key |-> KeyXA, value |-> "h1"], [key |-> KeyXa, value |-> "h2"]>>) }

QueryMaps ==
    { NoMap, MapOf(<<>>), MapOf(<<[key |-> KeyK1, value |-> "q1"]>>),
      MapOf(<<[key |-> KeyK1, value |-> "q1"], [key |-> <<"K", "1">>, value |-> "q2"]>>) }

ApiKeyAuths ==
    { Auth("apiKey", v, Undef, Undef, h, q, c, NoMap, NoMap) :
        v \in {"s3cr3t", Undef},
        h \in {"X-API-Key", Undef},
        q \in {"api_key", Undef},
        c \in {"session", Undef} }

BearerAuths ==
    { Auth("bearer", v, Undef, Undef, Undef, Undef, Undef, NoMap, NoMap) :
        v \in {"s3cr3t", "", Undef} }

BasicAuths ==
    { Auth("basic", Undef, u, p, Undef, Undef, Undef, NoMap, NoMap) :
        u \in {"user", Undef}, p \in {"pass", Undef} }

CustomAuths ==
    { Auth("custom", Undef, Undef, Undef, Undef, Undef, Undef, h, q) :
        h \in HeaderMaps, q \in QueryMaps }

AuthConfigs == ApiKeyAuths \cup BearerAuths \cup BasicAuths \cup CustomAuths

Route(path, price) == [path |-> path, price |-> price]

RouteLists ==
    { <<>>,
      <<Route(<<"/", "api", "/", "*">>, <<"$", "0.001">>)>>,
      <<Route(SlashStar, <<"$", "0.01">>)>>,
      <<Route(<<"/", "api", "/", "*">>, <<"$", "0.001">>), Route(<<"/", "health">>, <<"$", "0.01">>)>>,
      <<Route(SlashStar, <<"$", "0.01">>), Route(<<"/", "health">>, <<"$", "0.001">>)>>,
      <<Route(<<"/", "api", "/", "*">>, <<"$", "0.001">>),
        Route(<<"/", "api", "/", "*">>, <<"$", "0.01">>)>>,
      <<Route(<<"/", "users", "/", "{id}">>, <<"$", "0.01">>)>> }

ProjectConfig(routes, auth, baseUrl, network, facilitatorUrl) ==
    [projectName |-> "to402-server",
     description |-> "x402 proxy server",
     baseUrl |-> baseUrl,
     defaultPrice |-> <<"$", "0.001">>,
     sellerAddress |-> "0x1111111111111111111111111111111111111111",
     network |-> network,
     facilitatorUrl |-> facilitatorUrl,
     routes |-> routes,
     auth |-> auth]

ProjectConfigs ==
    { ProjectConfig(r, a, "https://api.example.com", n, f) :
        r \in RouteLists,
        a \in AuthConfigs \cup {AuthUndefined},
        n \in {"base", "solana-devnet"},
        f \in {Undef, "https://facilitator.x402.org"} }

(***************************************************************************)
(* generateProject                                                         *)
(***************************************************************************)
OutputFiles ==
    {"src/index.ts", "package.json", "tsconfig.json", ".env", ".env.example", "README.md"}

Absent == [state |-> "absent", content |-> <<>>]

\* what an interrupted fs.writeFile can leave behind
Partial == [state |-> "partial", content |-> <<>>]

Written(content) == [state |-> "written", content |-> <<content>>]

\* the messages of the errors fs-extra rejects with
IoErrors == {"EACCES: permission denied", "ENOSPC: no space left on device"}

\* a plausible slip: the cause's message is dropped
GenerationError_NoCause(message) == <<"Failed to generate project", "">>

\* new Error(`Failed to generate project: ${error.message}`)
GenerationError(message) == <<"Failed to generate project: ", message>>

\* await fs.writeFile(path.join(outputDir, file), content, "utf-8"), then the
\* statement after it; a rejection goes to the catch clause
WriteFile(file, content, next) ==
    /\ UNCHANGED <<projectConfig, dirs, logged, clock, run, firstOutput>>
    /\ \/ /\ disk' = [disk EXCEPT ![file] = Written(content)]
          /\ pc' = next
          /\ UNCHANGED <<error, thrown>>
       \/ \E message \in IoErrors, left \in {disk[file], Partial} :
            /\ disk' = [disk EXCEPT ![file] = left]
            /\ pc' = "failed"
            /\ thrown' = Append(thrown, [at |-> file, message |-> message])
            /\ error' = GenerationError(message)

\* await fs.ensureDir(path.join(outputDir, "src"))
EnsureDir ==
    /\ pc = "ensureDir"
    /\ UNCHANGED <<projectConfig, disk, logged, clock, run, firstOutput>>
    /\ \/ /\ dirs' = dirs \cup {"src"}
          /\ pc' = "src/index.ts"
          /\ UNCHANGED <<error, thrown>>
       \/ \E message \in IoErrors :
            /\ pc' = "failed"
            /\ thrown' = Append(thrown, [at |-> "ensureDir", message |-> message])
            /\ error' = GenerationError(message)
            /\ UNCHANGED dirs

\* const serverContent = generateServerFile(config); await fs.writeFile(...)
WriteServerFile ==
    /\ pc = "src/index.ts"
    /\ LET serverContent == generateServerFile(projectConfig)
       IN  IF serverContent.threw
           THEN /\ pc' = "failed"
                /\ thrown' = Append(thrown, [at |-> "generateServerFile",
                                              message |-> serverContent.message])
                /\ error' = GenerationError(serverContent.message)
                /\ UNCHANGED <<projectConfig, disk, dirs, logged, clock, run, firstOutput>>
           ELSE WriteFile("src/index.ts", serverContent.value[1], "package.json")

\* a plausible slip: the write is not awaited, control moves on before the
\* file exists
WritePackageJson_NotAwaited ==
    /\ pc = "package.json"
    /\ pc' = "tsconfig.json"
    /\ UNCHANGED <<projectConfig, disk, dirs, error, thrown, logged, clock, run, firstOutput>>

WritePackageJson ==
    /\ pc = "package.json"
    /\ WriteFile("package.json", generatePackageJson(projectConfig), "tsconfig.json")

WriteTsConfig ==
    /\ pc = "tsconfig.json"
    /\ WriteFile("tsconfig.json", generateTsConfig, ".env")

WriteEnv ==
    /\ pc = ".env"
    /\ WriteFile(".env", generateEnv(projectConfig), ".env.example")

WriteEnvExample ==
    /\ pc = ".env.example"
    /\ WriteFile(".env.example", generateEnvExample(projectConfig), "README.md")

WriteReadme ==
    /\ pc = "README.md"
    /\ WriteFile("README.md", generateReadme(projectConfig), "log")

\* console.log(chalk.green(`✓ Project generated successfully in ${outputDir}`))
LogSuccess ==
    /\ pc = "log"
    /\ pc' = "done"
    /\ logged' = TRUE
    /\ UNCHANGED <<projectConfig, disk, dirs, error, thrown, clock, run, firstOutput>>

\* the caller runs generateProject again, later, with the same record and a
\* fresh output directory
GenerateAgain ==
    /\ pc = "done"
    /\ run < MaxRuns
    /\ run' = run + 1
    /\ clock' = clock + 1
    /\ firstOutput' = IF run = 1 THEN disk ELSE firstOutput
    /\ disk' = [f \in OutputFiles |-> Absent]
    /\ dirs' = {}
    /\ error' = <<>>
    /\ thrown' = <<>>
    /\ logged' = FALSE
    /\ pc' = "ensureDir"
    /\ UNCHANGED projectConfig

RequestIds == 1..MaxRequests

\* the set-up was not used: generateProject was called directly
CliNotRun ==
    [pc |-> "off", defaultPrice |-> <<>>, routePath |-> <<>>, routes |-> <<>>,
     answers |-> <<>>, exitCode |-> <<>>]

IdleRequest ==
    [pc |-> "idle", at |-> 0, path |-> <<>>, query |-> <<>>, headers |-> <<>>, method |-> "",
     events |-> <<>>, fetches |-> 0, sent |-> <<>>, forwarded |-> <<>>, upstream |-> <<>>,
     response |-> <<>>]

\* the generated project has not been started
ServerNotStarted ==
    /\ processEnv = <<>>
    /\ bootPc = "off"
    /\ exitCode = <<>>
    /\ stderr = <<>>
    /\ warnings = {}
    /\ app = <<>>
    /\ requests = [r \in RequestIds |-> IdleRequest]

Init ==
    /\ projectConfig \in ProjectConfigs
    /\ pc = "ensureDir"
    /\ disk = [f \in OutputFiles |-> Absent]
    /\ dirs = {}
    /\ error = <<>>
    /\ thrown = <<>>
    /\ logged = FALSE
    /\ clock = 0
    /\ run = 1
    /\ firstOutput = [f \in OutputFiles |-> Absent]
    /\ ServerNotStarted
    /\ cli = CliNotRun

Next ==
    \/ EnsureDir /\ UNCHANGED <<serverVars, cliVars>>
    \/ WriteServerFile /\ UNCHANGED <<serverVars, cliVars>>
    \/ WritePackageJson /\ UNCHANGED <<serverVars, cliVars>>
    \/ WriteTsConfig /\ UNCHANGED <<serverVars, cliVars>>
    \/ WriteEnv /\ UNCHANGED <<serverVars, cliVars>>
    \/ WriteEnvExample /\ UNCHANGED <<serverVars, cliVars>>
    \/ WriteReadme /\ UNCHANGED <<serverVars, cliVars>>
    \/ LogSuccess /\ UNCHANGED <<serverVars, cliVars>>
    \/ GenerateAgain /\ UNCHANGED <<serverVars, cliVars>>

Spec == Init /\ [][Next]_vars

(***************************************************************************)
(* The generated server: start-up                                          *)
(***************************************************************************)
FACILITATOR_URL == <<"FACILITATOR_URL">>

ADDRESS == <<"ADDRESS">>

NETWORK == <<"NETWORK">>

API_BASE_URL == <<"API_BASE_URL">>

\* the configurations the server is run from: generation succeeded
ServerConfigs ==
    { ProjectConfig(r, AuthUndefined, "https://api.example.com", "base", Undef) :
        r \in { l \in RouteLists : l # <<>> /\ \A i, j \in DOMAIN l : l[i].path = l[j].path => i = j } }
    \cup
    { ProjectConfig(<<Route(<<"/", "api", "/", "*">>, <<"$", "0.001">>)>>,
                    Auth("bearer", "s3cr3t", Undef, Undef, Undef, Undef, Undef, NoMap, NoMap),
                    "https://api.example.com", "base", Undef) }

\* deployments in front of an upstream that wants credentials, one for every
\* way of passing them
AuthServerConfigs ==
    { ProjectConfig(<<Route(<<"/", "secure", "/", "*">>, <<"$", "0.01">>)>>, a,
                    "https://api.example.com", "base", Undef) :
        a \in { Auth("apiKey", "s3cr3t", Undef, Undef, "X-API-Key", Undef, Undef, NoMap, NoMap),
                Auth("apiKey", "s3cr3t", Undef, Undef, Undef, "api_key", Undef, NoMap, NoMap),
                Auth("apiKey", "s3cr3t", Undef, Undef, Undef, Undef, "session", NoMap, NoMap),
                Auth("bearer", "s3cr3t", Undef, Undef, Undef, Undef, Undef, NoMap, NoMap),
                Auth("basic", Undef, "user", "pass", Undef, Undef, Undef, NoMap, NoMap),
                Auth("custom", Undef, Undef, Undef, Undef, Undef, Undef,
                     MapOf(<<[key |-> KeyXA, value |-> "h1"], [key |-> KeyK1, value |-> ""]>>),
                     MapOf(<<[key |-> KeyK1, value |-> "q1"]>>)) } }

\* the environments the process can be started in
ProcessEnvs(config) ==
    LET authNames == IF config.auth.defined
                     THEN {s.env : s \in {t \in Range(generateAuthConfig(config.auth)) :
                                            t.op \in {"constEnv", "constEnvOr"}}}
                     ELSE {}
        names == {FACILITATOR_URL, ADDRESS, NETWORK, API_BASE_URL} \cup authNames
    IN  { e \in [names -> {Undef, "", "https://facilitator.example", "0xabc", "base",
                           "https://upstream.internal/v1", "not-a-url", "t0k3n"}] :
            /\ e[FACILITATOR_URL] \in {Undef, "", "https://facilitator.example"}
            /\ e[ADDRESS] \in {Undef, "", "0xabc"}
            /\ e[NETWORK] \in {Undef, "", "base"}
            /\ e[API_BASE_URL] \in {Undef, "https://upstream.internal/v1", "not-a-url"}
            /\ \A n \in authNames : e[n] \in {Undef, "t0k3n"} }

\* the module the process runs
Module == disk["src/index.ts"].content[1]

\* const facilitatorUrl = process.env.FACILITATOR_URL, payTo, network
facilitatorUrl == processEnv[FACILITATOR_URL]

payTo == processEnv[ADDRESS]

network == processEnv[NETWORK]

\* const apiBaseUrl = process.env.API_BASE_URL || "<config.baseUrl>"
apiBaseUrl == OrElse(processEnv[API_BASE_URL], Module.apiBaseUrlFallback)

\* a plausible slip: only the first missing variable is reported
missing_FirstOnly ==
    IF ~Truthy(facilitatorUrl) THEN <<"FACILITATOR_URL">>
    ELSE IF ~Truthy(payTo) THEN <<"ADDRESS">>
    ELSE IF ~Truthy(network) THEN <<"NETWORK">>
    ELSE <<>>

\* const missing = []; if (!facilitatorUrl) missing.push("FACILITATOR_URL"); ...
missing ==
    (IF ~Truthy(facilitatorUrl) THEN <<"FACILITATOR_URL">> ELSE <<>>)
    \o (IF ~Truthy(payTo) THEN <<"ADDRESS">> ELSE <<>>)
    \o (IF ~Truthy(network) THEN <<"NETWORK">> ELSE <<>>)

\* if (!facilitatorUrl || !payTo || !network) { ...; process.exit(1) }
ValidateEnvironment ==
    /\ bootPc = "start"
    /\ IF ~Truthy(facilitatorUrl) \/ ~Truthy(payTo) \/ ~Truthy(network)
       THEN /\ stderr' = missing
            /\ exitCode' = <<1>>
            /\ bootPc' = "exited"
       ELSE /\ bootPc' = "auth"
            /\ UNCHANGED <<stderr, exitCode>>
    /\ UNCHANGED <<processEnv, warnings, app, requests>>

\* the value a declaration gives its binding when the module is loaded
BindingValue(declaration, bind) ==
    LET s == CHOOSE t \in Range(declaration) :
                 t.op \in {"constEnv", "constEnvOr"} /\ t.bind = bind
    IN  IF s.op = "constEnvOr" THEN OrElse(processEnv[s.env], s.lit) ELSE processEnv[s.env]

\* the declaration fragment runs: a warning for every missing secret, no exit
ConfigureAuth ==
    /\ bootPc = "auth"
    /\ warnings' = { s.lit : s \in { t \in Range(Module.authDeclaration) :
                        /\ t.op = "warnUnless"
                        /\ \E b \in t.uses :
                              ~Truthy(BindingValue(Module.authDeclaration, b)) } }
    /\ bootPc' = "app"
    /\ UNCHANGED <<processEnv, exitCode, stderr, app, requests>>

\* const app = new Hono(); app.use(paymentMiddleware(...)); app.all(...) ...
RegisterHandlers ==
    /\ bootPc = "app"
    /\ app' = Module.app
    /\ bootPc' = "serve"
    /\ UNCHANGED <<processEnv, exitCode, stderr, warnings, requests>>

\* const server = serve({ fetch: app.fetch, port }, ...)
Serve ==
    /\ bootPc = "serve"
    /\ bootPc' = "listening"
    /\ UNCHANGED <<processEnv, exitCode, stderr, warnings, app, requests>>

(***************************************************************************)
(* The generated server: requests                                          *)
(***************************************************************************)
IsPrefix(p, s) == Len(p) <= Len(s) /\ SubSeq(s, 1, Len(p)) = p

\* does a registered pattern match a request path: "*" matches every path,
\* ".../*" every path under the prefix, anything else only itself
Matches(pattern, path) ==
    IF pattern = Star THEN TRUE
    ELSE IF Len(pattern) >= 2 /\ pattern[Len(pattern)] = "*"
         THEN IsPrefix(SubSeq(pattern, 1, Len(pattern) - 1), path)
    ELSE pattern = path

\* a header of a Headers object: its name in lower case, its value
Header(name, value) == [name |-> name, value |-> value]

\* the headers every client sends
PlainHeaders ==
    << Header(<<"accept">>, <<"*/*">>), Header(<<"connection">>, <<"keep-alive">>),
       Header(<<"host">>, <<"proxy.example">>) >>

\* the requests sent to every server: path, query string as the sequence of
\* its name/value pairs, headers, method
RequestKinds ==
    { [path |-> <<"/", "api", "/", "items">>, query |-> <<>>, headers |-> PlainHeaders,
       method |-> "GET"],
      [path |-> <<"/", "api", "/", "items">>,
       query |-> << <<<<"tag">>, "a">>, <<<<"page">>, "2">>, <<<<"tag">>, "a">> >>,
       headers |-> PlainHeaders, method |-> "POST"],
      [path |-> <<"/", "health">>, query |-> <<>>, headers |-> PlainHeaders, method |-> "GET"],
      [path |-> <<"/", "other">>, query |-> <<>>, headers |-> PlainHeaders, method |-> "GET"] }

\* a request whose path starts with two slashes
DoubleSlashRequest ==
    [path |-> <<"/", "/", "evil.example", "/", "x">>, query |-> <<>>, headers |-> PlainHeaders,
     method |-> "GET"]

\* requests to a route written with a {name} segment: a value in its place,
\* nothing in its place, the pattern itself
ParameterRequests ==
    { [path |-> <<"/", "users", "/", "42">>, query |-> <<>>, headers |-> PlainHeaders,
       method |-> "GET"],
      [path |-> <<"/", "users", "/">>, query |-> <<>>, headers |-> PlainHeaders,
       method |-> "GET"],
      [path |-> <<"/", "users", "/", "{id}">>, query |-> <<>>, headers |-> PlainHeaders,
       method |-> "GET"] }

\* requests to a route whose upstream wants credentials: one without any, one
\* that brings its own under the names the proxy uses, one with an empty
\* Cookie header
CredentialRequests ==
    { [path |-> <<"/", "secure", "/", "data">>, query |-> <<>>, headers |-> PlainHeaders,
       method |-> "GET"],
      [path |-> <<"/", "secure", "/", "data">>,
       query |-> << <<<<"api_key">>, "caller">>, <<<<"k", "1">>, "caller">> >>,
       headers |-> << Header(<<"accept">>, <<"*/*">>),
                      Header(<<"authorization">>, <<"Bearer ", "caller">>),
                      Header(<<"connection">>, <<"keep-alive">>),
                      Header(<<"cookie">>, <<"sid=1">>),
                      Header(<<"host">>, <<"proxy.example">>),
                      Header(<<"x", "-", "a">>, <<"caller">>),
                      Header(<<"x-api-key">>, <<"caller">>) >>,
       method |-> "POST"],
      [path |-> <<"/", "secure", "/", "data">>, query |-> <<>>,
       headers |-> << Header(<<"accept">>, <<"*/*">>), Header(<<"cookie">>, <<>>),
                      Header(<<"host">>, <<"proxy.example">>) >>,
       method |-> "GET"] }

\* the requests sent to the server generated from a configuration
Traffic(config) ==
    IF config.routes[1].path = <<"/", "users", "/", "{id}">> THEN ParameterRequests
    ELSE IF config.routes[1].path = <<"/", "secure", "/", "*">> THEN CredentialRequests
    ELSE IF config.routes = <<Route(SlashStar, <<"$", "0.01">>)>>
         THEN RequestKinds \cup {DoubleSlashRequest}
    ELSE RequestKinds

\* what the upstream API answers with, when it answers
UpstreamResponses ==
    { [status |-> 200, statusText |-> "OK",
       headers |-> << Header(<<"content-type">>, <<"application/json">>),
                      Header(<<"set-cookie">>, <<"a=1">>),
                      Header(<<"set-cookie">>, <<"b=2">>) >>,
       body |-> "items"],
      [status |-> 503, statusText |-> "Service Unavailable",
       headers |-> << Header(<<"content-type">>, <<"text/plain">>),
                      Header(<<"retry-after">>, <<"30">>) >>,
       body |-> "down"] }

\* new URL(s) throws for a string that is not an absolute URL
IsUrl(s) == s \in {"https://api.example.com", "https://upstream.internal/v1"}

Url(protocol, host, pathname, search) ==
    [protocol |-> protocol, host |-> host, pathname |-> pathname, search |-> search]

\* new URL(s) for the absolute URLs in use
parseUrl(s) ==
    IF s = "https://api.example.com" THEN Url("https:", "api.example.com", <<"/">>, <<>>)
    ELSE Url("https:", "upstream.internal", <<"/", "v1">>, <<>>)

\* new URL(pathname, base) for a string that starts with a slash: two leading
\* slashes make it scheme-relative, and what follows them names the host
resolveUrl(pathname, base) ==
    IF Len(pathname) >= 3 /\ pathname[2] = "/" /\ pathname[3] # "/"
    THEN Url(base.protocol, pathname[3],
             IF Len(pathname) > 3 THEN SubSeq(pathname, 4, Len(pathname)) ELSE <<"/">>,
             <<>>)
    ELSE Url(base.protocol, base.host, pathname, <<>>)

\* a plausible slip: the request path keeps its leading slash
targetUrl_KeepsLeadingSlash(req) ==
    LET baseUrl == parseUrl(apiBaseUrl)
        basePathname == IF baseUrl.pathname[Len(baseUrl.pathname)] = "/"
                        THEN baseUrl.pathname
                        ELSE baseUrl.pathname \o <<"/">>
        url == resolveUrl(basePathname \o req.path, baseUrl)
    IN  [url EXCEPT !.search = url.search \o req.query]

\* the url the route handler builds from apiBaseUrl and the incoming request
targetUrl(req) ==
    LET baseUrl == parseUrl(apiBaseUrl)
        requestPath == IF req.path # <<>> /\ req.path[1] = "/" THEN Tail(req.path) ELSE req.path
        basePathname == IF baseUrl.pathname[Len(baseUrl.pathname)] = "/"
                        THEN baseUrl.pathname
                        ELSE baseUrl.pathname \o <<"/">>
        fullPathname == basePathname \o requestPath
        url == resolveUrl(fullPathname, baseUrl)
    IN  [url EXCEPT !.search = url.search \o req.query]

\* the k-th smallest of a set of positions
nth(S, k) == CHOOSE i \in S : Cardinality({j \in S : j < i}) = k - 1

\* a Headers object keeps names in lower case
headerName(name) ==
    [i \in DOMAIN name |->
        CASE name[i] = "Cookie" -> "cookie"
          [] name[i] = "Authorization" -> "authorization"
          [] name[i] = "X-API-Key" -> "x-api-key"
          [] OTHER -> LowerChar(name[i])]

\* headers.set(name, value) for every entry of a sequence, in order: a name
\* the object holds keeps its place and takes the last value set for it, a
\* new name is added at the end (the arguments and the normalised names are
\* bound as values, so that each is computed once)
headersSetAll(target, entries) ==
    LET setEach(h, e, names) ==
            LET last(n) == e[CHOOSE i \in DOMAIN e :
                                /\ names[i] = n
                                /\ \A j \in (i + 1)..Len(e) : names[j] # n].value
                fresh(i) == /\ \A k \in DOMAIN h : h[k].name # names[i]
                            /\ \A j \in 1..(i - 1) : names[j] # names[i]
                kept == [k \in DOMAIN h |->
                            IF \E i \in DOMAIN e : names[i] = h[k].name
                            THEN Header(h[k].name, last(h[k].name))
                            ELSE h[k]]
                added == SelectSeq([i \in DOMAIN e |-> i], fresh)
            IN  kept \o [k \in DOMAIN added |->
                            Header(names[added[k]], last(names[added[k]]))]
        normalised(h, e) ==
            CHOOSE result \in { setEach(h, e, names) :
                                  names \in {[i \in DOMAIN e |-> headerName(e[i].name)] \o <<>>} } : TRUE
    IN  CHOOSE result \in { normalised(h, e) : h \in {target}, e \in {entries} } : TRUE

headersSet(h, name, value) == headersSetAll(h, <<Header(name, value)>>)

\* a plausible slip: only the host header is left out
Forwardable_HostOnly(header) == headerName(header.name) # <<"host">>

\* key.toLowerCase() !== "host" && key.toLowerCase() !== "connection"
Forwardable(header) ==
    headerName(header.name) # <<"host">> /\ headerName(header.name) # <<"connection">>

\* const headers = new Headers(); c.req.raw.headers.forEach(...);
\* headers.set("host", baseUrl.host)
copiedHeaders(req) ==
    headersSet(headersSetAll(<<>>, SelectSeq(req.headers, Forwardable)),
               <<"host">>, <<parseUrl(apiBaseUrl).host>>)

\* the value of a binding of the declaration fragment
bound(bind) == BindingValue(Module.authDeclaration, bind)

\* the entries of the customHeaders / customQueryParams object the
\* declaration fragment fills that the forEach of the injection acts on: in
\* insertion order, those with a truthy value
customEntries(obj) ==
    LET d == Module.authDeclaration
        at == {k \in DOMAIN d :
                  /\ d[k].op = "assignKey"
                  /\ d[k].bind = obj
                  /\ \A b \in d[k].uses : Truthy(bound(b))}
    IN  [n \in 1..Cardinality(at) |->
            LET k == nth(at, n)
            IN  [name |-> d[k].key, value |-> bound(CHOOSE b \in d[k].uses : TRUE)]]

\* a plausible slip: the key replaces the cookies of the caller
cookieHeader_Replaces(existingCookie, name, value) == <<name, "=", value>>

\* existingCookie ? `${existingCookie}; ${apiKeyCookie}=${apiKeyValue}`
\*                : `${apiKeyCookie}=${apiKeyValue}`
cookieHeader(existingCookie, name, value) ==
    IF existingCookie # <<>>
    THEN existingCookie \o <<"; ", name, "=", value>>
    ELSE <<name, "=", value>>

\* one statement of the injection fragment, run on the handler's headers and url
applyInject(s, out) ==
    IF \E b \in s.guard : ~Truthy(bound(b)) THEN out
    ELSE CASE s.op = "setHeader" ->
                [out EXCEPT !.headers =
                    headersSet(out.headers, <<bound(s.name)>>, <<bound(s.values[1])>>)]
           [] s.op = "appendQuery" ->
                [out EXCEPT !.url.search =
                    Append(out.url.search, << <<bound(s.name)>>, bound(s.values[1]) >>)]
           [] s.op = "appendCookie" ->
                LET held == {k \in DOMAIN out.headers :
                                out.headers[k].name = headerName(<<s.lit>>)}
                    existingCookie == IF held = {} THEN <<>>
                                      ELSE out.headers[CHOOSE k \in held : TRUE].value
                IN  [out EXCEPT !.headers =
                        headersSet(out.headers, <<s.lit>>,
                                   cookieHeader(existingCookie, bound(s.name),
                                                bound(s.values[1])))]
           [] s.op = "setBearer" ->
                [out EXCEPT !.headers =
                    headersSet(out.headers, <<s.lit>>, <<"Bearer ", bound(s.values[1])>>)]
           [] s.op = "setBasic" ->
                [out EXCEPT !.headers =
                    headersSet(out.headers, <<s.lit>>,
                               <<"Basic ", "base64(", bound(s.values[1]), ":",
                                 bound(s.values[2]), ")">>)]
           [] s.op = "forEachSetHeader" ->
                LET entries == customEntries(s.obj)
                IN  [out EXCEPT !.headers =
                        headersSetAll(out.headers,
                            [i \in DOMAIN entries |->
                                Header(entries[i].name, <<entries[i].value>>)])]
           [] s.op = "forEachAppendQuery" ->
                LET entries == customEntries(s.obj)
                IN  [out EXCEPT !.url.search =
                        out.url.search \o
                        [i \in DOMAIN entries |-> <<entries[i].name, entries[i].value>>]]

\* the injection fragment: at most two statements, run in order
injectAuth(authCode, out) ==
    LET first == IF Len(authCode) >= 1 THEN applyInject(authCode[1], out) ELSE out
    IN  IF Len(authCode) >= 2 THEN applyInject(authCode[2], first) ELSE first

\* a plausible slip: the caller's headers are copied after the injection
upstreamRequest_CopiesLast(req) ==
    LET injected == injectAuth(app[req.at].authCode,
                               [headers |-> <<>>, url |-> targetUrl(req)])
    IN  [headers |-> headersSet(headersSetAll(injected.headers,
                                              SelectSeq(req.headers, Forwardable)),
                                <<"host">>, <<parseUrl(apiBaseUrl).host>>),
         url |-> injected.url]

\* the headers and url handed to fetch: copied, then the injection fragment
upstreamRequest(req) ==
    injectAuth(app[req.at].authCode, [headers |-> copiedHeaders(req), url |-> targetUrl(req)])

Response(status, errorText, message, availableRoutes, upstream) ==
    [status |-> status, error |-> errorText, message |-> message,
     availableRoutes |-> availableRoutes, upstream |-> upstream]

\* the 402 the payment middleware answers with
paymentRequiredResponse == Response(402, "Payment Required", "", <<>>, <<>>)

\* a plausible slip: a failed fetch is reported as an internal error
fetchErrorResponse_AsInternal(message) ==
    Response(500, "Internal server error", message, <<>>, <<>>)

\* catch (fetchError) { return c.json({ error: "Failed to proxy request", ... }, 502) }
fetchErrorResponse(message) == Response(502, "Failed to proxy request", message, <<>>, <<>>)

\* catch (error) { return c.json({ error: "Internal server error", ... }, 500) }
unexpectedErrorResponse(message) == Response(500, "Internal server error", message, <<>>, <<>>)

\* return new Response(responseBody, { status: response.status,
\*   statusText: response.statusText,
\*   headers: Object.fromEntries(response.headers.entries()) }): the object
\* holds one value for a name, the last of the entries with that name
mirroredResponse(upstream) ==
    Response(upstream.status, "", "", <<>>,
             <<[upstream EXCEPT !.headers = headersSetAll(<<>>, upstream.headers)]>>)

\* c.json({ error: "Not Found", message, availableRoutes }, 404)
notFoundResponse(registration) ==
    Response(404, "Not Found", "path not configured", registration.availableRoutes, <<>>)

\* Hono's own answer when no registration matches
defaultNotFoundResponse == Response(404, "404 Not Found", "", <<>>, <<>>)

Respond(req, response) ==
    [req EXCEPT !.pc = "responded", !.response = <<response>>]

Event(req, e) == [req EXCEPT !.events = Append(req.events, e)]

\* const hasBody = method !== "GET" && method !== "HEAD"
hasBody(method) == method # "GET" /\ method # "HEAD"

\* fetch(url.toString(), { method, headers, body }) is called with the url
\* and the headers the handler has built
Fetch(req) ==
    LET called(out) ==
            [Event(req, "fetch") EXCEPT
                !.pc = "fetching",
                !.fetches = req.fetches + 1,
                !.sent = Append(req.sent, [method |-> req.method, url |-> out.url]),
                !.forwarded = Append(req.forwarded, out.headers)]
    IN  CHOOSE result \in { called(out) : out \in {upstreamRequest(req)} } : TRUE

\* the route handler up to its first await
proxyHandler(req) ==
    IF ~IsUrl(apiBaseUrl)
    THEN Respond(Event(req, "handler"), unexpectedErrorResponse("Invalid URL"))
    ELSE IF hasBody(req.method)
         THEN [Event(req, "handler") EXCEPT !.pc = "readBody"]
         ELSE Fetch(Event(req, "handler"))

\* the first registration at or after position from whose pattern matches
NextMatch(path, from) ==
    LET hits == {i \in DOMAIN app : i >= from /\ Matches(app[i].path, path)}
    IN  IF hits = {} THEN 0 ELSE CHOOSE i \in hits : \A j \in hits : i <= j

\* Hono runs the matching registrations in the order they were registered
Dispatch(req, from) ==
    LET i == NextMatch(req.path, from)
    IN  IF i = 0 THEN Respond(req, defaultNotFoundResponse)
        ELSE IF app[i].handler = "paymentMiddleware"
             THEN [Event(req, "middleware") EXCEPT !.pc = "payment", !.at = i]
        ELSE IF app[i].handler = "proxy"
             THEN proxyHandler([req EXCEPT !.at = i])
        ELSE Respond(Event([req EXCEPT !.at = i], "notFound"), notFoundResponse(app[i]))

ServerFrame == UNCHANGED <<processEnv, bootPc, exitCode, stderr, warnings, app>>

\* a request arrives
Receive(r) ==
    /\ bootPc = "listening"
    /\ requests[r].pc = "idle"
    /\ \E kind \in Traffic(projectConfig) :
         requests' = [requests EXCEPT ![r] =
            Dispatch([IdleRequest EXCEPT !.path = kind.path, !.query = kind.query,
                                         !.headers = kind.headers,
                                         !.method = kind.method,
                                         !.events = <<"received">>], 1)]
    /\ ServerFrame

\* the payment middleware answers 402 or calls next()
PaymentCheck(r) ==
    /\ bootPc = "listening"
    /\ requests[r].pc = "payment"
    /\ LET req == requests[r]
           entries == app[req.at].payment
           required == \E i \in DOMAIN entries : Matches(entries[i].key, req.path)
       IN  IF required
           THEN \/ requests' = [requests EXCEPT ![r] =
                       Respond(Event(req, "paymentRejected"), paymentRequiredResponse)]
                \/ requests' = [requests EXCEPT ![r] =
                       Dispatch(Event(req, "paymentAdmitted"), req.at + 1)]
           ELSE requests' = [requests EXCEPT ![r] =
                       Dispatch(Event(req, "paymentNotRequired"), req.at + 1)]
    /\ ServerFrame

\* body: hasBody ? await c.req.raw.clone().arrayBuffer() : undefined, inside
\* the try around fetch
ReadRequestBody(r) ==
    /\ bootPc = "listening"
    /\ requests[r].pc = "readBody"
    /\ LET req == requests[r]
       IN  \/ requests' = [requests EXCEPT ![r] = Fetch(req)]
           \/ requests' = [requests EXCEPT ![r] =
                  Respond(Event(req, "requestBodyFailed"),
                          fetchErrorResponse("request body unreadable"))]
    /\ ServerFrame

\* response = await fetch(...): it resolves with the upstream response
FetchReturns(r) ==
    /\ bootPc = "listening"
    /\ requests[r].pc = "fetching"
    /\ \E upstream \in UpstreamResponses :
         requests' = [requests EXCEPT ![r] =
            [Event(requests[r], "fetchReturned") EXCEPT
                !.pc = "readResponse", !.upstream = <<upstream>>]]
    /\ ServerFrame

\* a plausible slip: a failed fetch is tried once more
FetchThrows_RetriesOnce(r) ==
    /\ bootPc = "listening"
    /\ requests[r].pc = "fetching"
    /\ requests' = [requests EXCEPT ![r] =
          IF requests[r].fetches < 2
          THEN Fetch(Event(requests[r], "fetchThrew"))
          ELSE Respond(Event(requests[r], "fetchThrew"), fetchErrorResponse("fetch failed"))]
    /\ ServerFrame

\* response = await fetch(...): it rejects
FetchThrows(r) ==
    /\ bootPc = "listening"
    /\ requests[r].pc = "fetching"
    /\ requests' = [requests EXCEPT ![r] =
          Respond(Event(requests[r], "fetchThrew"), fetchErrorResponse("fetch failed"))]
    /\ ServerFrame

\* a plausible slip: a failed body read is left unanswered
ReadResponseBody_Unanswered(r) ==
    /\ bootPc = "listening"
    /\ requests[r].pc = "readResponse"
    /\ LET req == requests[r]
       IN  \/ requests' = [requests EXCEPT ![r] =
                  Respond(Event(req, "mirrored"), mirroredResponse(req.upstream[1]))]
           \/ requests' = [requests EXCEPT ![r] =
                  [Event(req, "responseBodyFailed") EXCEPT !.pc = "dropped"]]
    /\ ServerFrame

\* const responseBody = await response.arrayBuffer(); return new Response(...)
ReadResponseBody(r) ==
    /\ bootPc = "listening"
    /\ requests[r].pc = "readResponse"
    /\ LET req == requests[r]
       IN  \/ requests' = [requests EXCEPT ![r] =
                  Respond(Event(req, "mirrored"), mirroredResponse(req.upstream[1]))]
           \/ requests' = [requests EXCEPT ![r] =
                  Respond(Event(req, "responseBodyFailed"),
                          unexpectedErrorResponse("response body unreadable"))]
    /\ ServerFrame

RequestStep(r) ==
    \/ Receive(r)
    \/ PaymentCheck(r)
    \/ ReadRequestBody(r)
    \/ FetchReturns(r)
    \/ FetchThrows(r)
    \/ ReadResponseBody(r)

\* the process is started in a generated project
ServerInit ==
    /\ projectConfig \in ServerConfigs
    /\ pc = "done"
    /\ disk = [f \in OutputFiles |->
                 CASE f = "src/index.ts" -> Written(generateServerFile(projectConfig).value[1])
                   [] f = "package.json" -> Written(generatePackageJson(projectConfig))
                   [] f = "tsconfig.json" -> Written(generateTsConfig)
                   [] f = ".env" -> Written(generateEnv(projectConfig))
                   [] f = ".env.example" -> Written(generateEnvExample(projectConfig))
                   [] f = "README.md" -> Written(generateReadme(projectConfig))]
    /\ dirs = {"src"}
    /\ error = <<>>
    /\ thrown = <<>>
    /\ logged = TRUE
    /\ clock = 0
    /\ run = 1
    /\ firstOutput = [f \in OutputFiles |-> Absent]
    /\ processEnv \in ProcessEnvs(projectConfig)
    /\ bootPc = "start"
    /\ exitCode = <<>>
    /\ stderr = <<>>
    /\ warnings = {}
    /\ app = <<>>
    /\ requests = [r \in RequestIds |-> IdleRequest]
    /\ cli = CliNotRun

ServerNext ==
    \/ ValidateEnvironment /\ UNCHANGED <<genVars, cliVars>>
    \/ ConfigureAuth /\ UNCHANGED <<genVars, cliVars>>
    \/ RegisterHandlers /\ UNCHANGED <<genVars, cliVars>>
    \/ Serve /\ UNCHANGED <<genVars, cliVars>>
    \/ \E r \in RequestIds : Receive(r) /\ UNCHANGED <<genVars, cliVars>>
    \/ \E r \in RequestIds : PaymentCheck(r) /\ UNCHANGED <<genVars, cliVars>>
    \/ \E r \in RequestIds : ReadRequestBody(r) /\ UNCHANGED <<genVars, cliVars>>
    \/ \E r \in RequestIds : FetchReturns(r) /\ UNCHANGED <<genVars, cliVars>>
    \/ \E r \in RequestIds : FetchThrows(r) /\ UNCHANGED <<genVars, cliVars>>
    \/ \E r \in RequestIds : ReadResponseBody(r) /\ UNCHANGED <<genVars, cliVars>>

ServerSpec == ServerInit /\ [][ServerNext]_vars

\* the process is started in a project generated with authentication: the
\* payment variables are set, the names keep their generated defaults, and
\* every secret is either set or missing
AuthServerInit ==
    /\ projectConfig \in AuthServerConfigs
    /\ pc = "done"
    /\ disk = [f \in OutputFiles |->
                 CASE f = "src/index.ts" -> Written(generateServerFile(projectConfig).value[1])
                   [] f = "package.json" -> Written(generatePackageJson(projectConfig))
                   [] f = "tsconfig.json" -> Written(generateTsConfig)
                   [] f = ".env" -> Written(generateEnv(projectConfig))
                   [] f = ".env.example" -> Written(generateEnvExample(projectConfig))
                   [] f = "README.md" -> Written(generateReadme(projectConfig))]
    /\ dirs = {"src"}
    /\ error = <<>>
    /\ thrown = <<>>
    /\ logged = TRUE
    /\ clock = 0
    /\ run = 1
    /\ firstOutput = [f \in OutputFiles |-> Absent]
    /\ LET declared == {s.env : s \in {t \in Range(generateAuthConfig(projectConfig.auth)) :
                                          t.op \in {"constEnv", "constEnvOr"}}}
           names == {<<"API_KEY_HEADER">>, <<"API_KEY_QUERY">>, <<"API_KEY_COOKIE">>}
           secrets == declared \ names
       IN  processEnv \in
             { [n \in {FACILITATOR_URL, ADDRESS, NETWORK, API_BASE_URL} \cup declared |->
                  CASE n = FACILITATOR_URL -> "https://facilitator.example"
                    [] n = ADDRESS -> "0xabc"
                    [] n = NETWORK -> "base"
                    [] n \in secrets -> chosen[n]
                    [] OTHER -> Undef] :
               chosen \in [secrets -> {Undef, "t0k3n"}] }
    /\ bootPc = "start"
    /\ exitCode = <<>>
    /\ stderr = <<>>
    /\ warnings = {}
    /\ app = <<>>
    /\ requests = [r \in RequestIds |-> IdleRequest]
    /\ cli = CliNotRun

AuthServerSpec == AuthServerInit /\ [][ServerNext]_vars

\* one deployment; an upstream response whose head has arrived arrives whole.
\* Nothing makes the payment check or the upstream call itself settle.
FairServerInit ==
    /\ ServerInit
    /\ projectConfig.routes = <<Route(<<"/", "api", "/", "*">>, <<"$", "0.001">>)>>
    /\ ~projectConfig.auth.defined

FairServerSpec ==
    /\ FairServerInit
    /\ [][ServerNext]_vars
    /\ \A r \in RequestIds : WF_vars(ReadResponseBody(r) /\ UNCHANGED <<genVars, cliVars>>)

(***************************************************************************)
(* The interactive set-up (runInteractiveSetup)                            *)
(***************************************************************************)
\* String.prototype.trim over token sequences, " " being white space
trim(s) ==
    LET inked == {i \in DOMAIN s : s[i] # " "}
    IN  IF inked = {} THEN <<>>
        ELSE SubSeq(s, CHOOSE i \in inked : \A j \in inked : i <= j,
                       CHOOSE i \in inked : \A j \in inked : j <= i)

\* the decimal numerals typed at the price prompts
Decimals == {"0.001", "0.01", "0.5"}

\* /^\$?\d+(\.\d+)?$/.test(price.trim())
isValidPrice(price) ==
    LET t == trim(price)
    IN  \/ Len(t) = 1 /\ t[1] \in Decimals
        \/ Len(t) = 2 /\ t[1] = "$" /\ t[2] \in Decimals

\* const trimmed = price.trim(); trimmed.startsWith("$") ? trimmed : `$${trimmed}`
normalizePrice(price) ==
    LET trimmed == trim(price)
    IN  IF trimmed # <<>> /\ trimmed[1] = "$" THEN trimmed ELSE <<"$">> \o trimmed

\* what is typed at a price prompt; the empty line takes the prompt's default
PriceAnswers == { <<>>, <<"0.01">>, <<" ", "$", "0.5", " ">>, <<"$", " ", "0.5">>, <<"free">> }

\* what is typed at the route path prompt
RoutePathAnswers ==
    { <<"/", "api", "/", "*">>, <<"/", "health", " ">>, <<"health">>, <<" ">> }

\* the answer of an input prompt: the text typed, or the default for an empty line
Answer(typed, default) == IF typed = <<>> THEN default ELSE typed

\* generateProject has not been called yet
NoConfig == <<>>

CliFrame == UNCHANGED <<projectConfig, pc, disk, dirs, error, thrown, logged, clock, run,
                        firstOutput, processEnv, bootPc, exitCode, stderr, warnings, app,
                        requests>>

\* steps 1 to 3: project name, description, base URL
PromptBasics ==
    /\ cli.pc = "start"
    /\ cli' = [cli EXCEPT !.pc = "defaultPrice"]
    /\ CliFrame

\* step 4: the default price; inquirer asks again until validate accepts
PromptDefaultPrice ==
    /\ cli.pc = "defaultPrice"
    /\ \E typed \in PriceAnswers :
         LET defaultPrice == Answer(typed, <<"$", "0.001">>)
         IN  /\ isValidPrice(defaultPrice)
             /\ cli' = [cli EXCEPT !.defaultPrice = defaultPrice, !.pc = "routePath"]
    /\ CliFrame

\* step 5, the loop body: the route path
PromptRoutePath ==
    /\ cli.pc = "routePath"
    /\ \E typed \in RoutePathAnswers :
         /\ trim(typed) # <<>>
         /\ typed[1] = "/"
         /\ cli' = [cli EXCEPT !.routePath = typed, !.pc = "routePrice"]
    /\ CliFrame

\* a plausible slip: the route price prompt offers the literal default
PromptRoutePrice_LiteralDefault ==
    /\ cli.pc = "routePrice"
    /\ \E typed \in PriceAnswers :
         LET routePrice == Answer(typed, <<"$", "0.001">>)
         IN  /\ isValidPrice(routePrice)
             /\ cli' = [cli EXCEPT
                    !.routes = Append(@, Route(trim(cli.routePath), normalizePrice(routePrice))),
                    !.answers = Append(@, typed),
                    !.pc = "addMore"]
    /\ CliFrame

\* step 5, the loop body: the route's price, defaulting to the default price
\* as typed; routes.push({ path: routePath.trim(), price: normalizePrice(routePrice) })
PromptRoutePrice ==
    /\ cli.pc = "routePrice"
    /\ \E typed \in PriceAnswers :
         LET routePrice == Answer(typed, cli.defaultPrice)
         IN  /\ isValidPrice(routePrice)
             /\ cli' = [cli EXCEPT
                    !.routes = Append(@, Route(trim(cli.routePath), normalizePrice(routePrice))),
                    !.answers = Append(@, typed),
                    !.pc = "addMore"]
    /\ CliFrame

\* step 5, the loop condition: "Add another route?"
PromptAddMore ==
    /\ cli.pc = "addMore"
    /\ \E addMore \in BOOLEAN :
         IF addMore
         THEN /\ Len(cli.routes) < MaxRoutes
              /\ cli' = [cli EXCEPT !.pc = "routePath"]
         ELSE cli' = [cli EXCEPT !.pc = "rest"]
    /\ CliFrame

\* the authentication the set-up can collect (step 9)
CliAuthConfigs ==
    { AuthUndefined,
      Auth("bearer", "s3cr3t", Undef, Undef, Undef, Undef, Undef, NoMap, NoMap) }

\* steps 6 to 9 and the hand-over: seller address, network, facilitator URL,
\* authentication; the record is built, the project directory created and
\* generateProject called
PromptRestAndGenerate ==
    /\ cli.pc = "rest"
    /\ UNCHANGED <<disk, dirs, error, thrown, logged, clock, run, firstOutput>>
    /\ UNCHANGED serverVars
    /\ \E auth \in CliAuthConfigs :
         LET config == [projectName |-> "to402-server",
                        description |-> "An x402 proxy server",
                        baseUrl |-> "https://api.example.com",
                        defaultPrice |-> normalizePrice(cli.defaultPrice),
                        sellerAddress |-> "0x1111111111111111111111111111111111111111",
                        network |-> "base",
                        facilitatorUrl |-> "https://facilitator.x402.org",
                        routes |-> cli.routes,
                        auth |-> auth]
         IN  \/ /\ projectConfig' = config
                /\ pc' = "ensureDir"
                /\ cli' = [cli EXCEPT !.pc = "generating"]
             \/ /\ cli' = [cli EXCEPT !.pc = "exited", !.exitCode = <<1>>]
                /\ UNCHANGED <<projectConfig, pc>>

\* generateProject settled: the next steps are printed, or main's catch
\* prints the error and calls process.exit(1)
CliFinish ==
    /\ cli.pc = "generating"
    /\ pc \in {"done", "failed"}
    /\ cli' = IF pc = "done" THEN [cli EXCEPT !.pc = "succeeded"]
              ELSE [cli EXCEPT !.pc = "exited", !.exitCode = <<1>>]
    /\ CliFrame

CliInit ==
    /\ cli = [CliNotRun EXCEPT !.pc = "start"]
    /\ projectConfig = NoConfig
    /\ pc = "notCalled"
    /\ disk = [f \in OutputFiles |-> Absent]
    /\ dirs = {}
    /\ error = <<>>
    /\ thrown = <<>>
    /\ logged = FALSE
    /\ clock = 0
    /\ run = 1
    /\ firstOutput = [f \in OutputFiles |-> Absent]
    /\ ServerNotStarted

CliNext ==
    \/ PromptBasics
    \/ PromptDefaultPrice
    \/ PromptRoutePath
    \/ PromptRoutePrice
    \/ PromptAddMore
    \/ PromptRestAndGenerate
    \/ EnsureDir /\ UNCHANGED <<serverVars, cliVars>>
    \/ WriteServerFile /\ UNCHANGED <<serverVars, cliVars>>
    \/ WritePackageJson /\ UNCHANGED <<serverVars, cliVars>>
    \/ WriteTsConfig /\ UNCHANGED <<serverVars, cliVars>>
    \/ WriteEnv /\ UNCHANGED <<serverVars, cliVars>>
    \/ WriteEnvExample /\ UNCHANGED <<serverVars, cliVars>>
    \/ WriteReadme /\ UNCHANGED <<serverVars, cliVars>>
    \/ LogSuccess /\ UNCHANGED <<serverVars, cliVars>>
    \/ CliFinish

CliSpec == CliInit /\ [][CliNext]_vars

(***************************************************************************)
(* Properties of generateProject                                           *)
(***************************************************************************)
\* the order in which generateProject writes its files
FileOrder ==
    <<"src/index.ts", "package.json", "tsconfig.json", ".env", ".env.example", "README.md">>

IndexOfFile(file) == CHOOSE i \in DOMAIN FileOrder : FileOrder[i] = file

\* the position in FileOrder of the step an error was raised at (0: before any write)
StepIndex(at) ==
    IF at \in {"ensureDir", "generateServerFile"} THEN 0 ELSE IndexOfFile(at)

\* C1: with an empty route list generateProject never gets past the server
\* module: it writes none of the six output files, the server text is never
\* assembled, and once the src directory exists the call can only end
\* rejected with "Failed to generate project: At least one route is required".
C1_EmptyRoutesRejected ==
    Len(projectConfig.routes) = 0 =>
        /\ pc \in {"ensureDir", "src/index.ts", "failed"}
        /\ \A f \in OutputFiles : disk[f] = Absent
        /\ ~logged
        /\ generateServerFile(projectConfig).value = <<>>
        /\ (pc = "failed" /\ "src" \in dirs) =>
              error = <<"Failed to generate project: ", "At least one route is required">>

C1_Witness ==
    /\ Len(projectConfig.routes) = 0
    /\ pc = "failed"
    /\ "src" \in dirs
    /\ thrown = <<[at |-> "generateServerFile", message |-> "At least one route is required"]>>

\* C2: when a directory-creation or file-write step fails, the call ends
\* rejected with the single error "Failed to generate project: " followed by
\* the cause's message; every file of an earlier step is on disk as written,
\* no file of a later step exists, and the success line is not printed.
C2_FailureAbortsAndWraps ==
    /\ Len(thrown) <= 1
    /\ (thrown # <<>>) <=> (pc = "failed")
    /\ (error # <<>>) <=> (pc = "failed")
    /\ pc = "failed" =>
          /\ error = <<"Failed to generate project: ", thrown[1].message>>
          /\ ~logged
          /\ \A i \in DOMAIN FileOrder :
                /\ i < StepIndex(thrown[1].at) => disk[FileOrder[i]].state = "written"
                /\ i > StepIndex(thrown[1].at) => disk[FileOrder[i]] = Absent

C2_Witness ==
    /\ pc = "failed"
    /\ thrown = <<[at |-> ".env", message |-> "ENOSPC: no space left on device"]>>
    /\ disk["tsconfig.json"].state = "written"
    /\ disk[".env"] = Partial
    /\ disk["README.md"] = Absent

(***************************************************************************)
(* Properties of the auth fragments                                        *)
(***************************************************************************)
\* the environment variables a declaration fragment reads
EnvNamesRead(declaration) ==
    {declaration[i].env : i \in {j \in DOMAIN declaration :
                                   declaration[j].op \in {"constEnv", "constEnvOr"}}}

\* the variables an environment-file section assigns
EnvNamesWritten(section) ==
    {section[i].name : i \in {j \in DOMAIN section : section[j].kind = "assign"}}

\* the module-level bindings a declaration fragment declares
Declared(declaration) ==
    {declaration[i].bind : i \in {j \in DOMAIN declaration :
                                    declaration[j].op \in {"constEnv", "constEnvOr", "constObj"}}}

\* the identifiers an injection fragment refers to
Referenced(injection) ==
    UNION { {injection[i].target} \cup injection[i].guard \cup Range(injection[i].values)
            \cup (IF injection[i].name = <<>> THEN {} ELSE {injection[i].name})
            \cup (IF injection[i].obj = <<>> THEN {} ELSE {injection[i].obj})
          : i \in DOMAIN injection }

\* the locals of the route handler the injection fragment is pasted into
HandlerLocals == {<<"headers">>, <<"url">>}

\* C8: for every AuthConfig the variables read by the declaration fragment
\* are exactly the variables assigned in the auth section of .env and
\* exactly those assigned in the auth section of .env.example; and so it is
\* in the files written.
C8_EnvNamesAgree ==
    /\ projectConfig.auth.defined =>
          /\ EnvNamesRead(generateAuthConfig(projectConfig.auth))
               = EnvNamesWritten(generateEnv(projectConfig).authSection)
          /\ EnvNamesRead(generateAuthConfig(projectConfig.auth))
               = EnvNamesWritten(generateEnvExample(projectConfig).authSection)
    /\ (disk["src/index.ts"].state = "written" /\ disk[".env"].state = "written") =>
          EnvNamesRead(disk["src/index.ts"].content[1].authDeclaration)
            = EnvNamesWritten(disk[".env"].content[1].authSection)
    /\ (disk["src/index.ts"].state = "written" /\ disk[".env.example"].state = "written") =>
          EnvNamesRead(disk["src/index.ts"].content[1].authDeclaration)
            = EnvNamesWritten(disk[".env.example"].content[1].authSection)

C8_Witness ==
    /\ projectConfig.auth.type = "custom"
    /\ disk[".env.example"].state = "written"
    /\ disk[".env"].state = "written"
    /\ EnvNamesWritten(disk[".env.example"].content[1].authSection)
         = { <<"CUSTOM_HEADER_", "X", "_", "A">>, <<"CUSTOM_HEADER_", "K", "1">>,
             <<"CUSTOM_QUERY_", "K", "1">> }

\* C9: for every AuthConfig every identifier the injection fragment refers
\* to is a local of the handler or is declared by the declaration fragment,
\* and the injection fragment is empty exactly when the declaration
\* fragment is; and so it is in the server module written.
C9_InjectionRefersToDeclared ==
    /\ projectConfig.auth.defined =>
          /\ Referenced(generateAuthCode(projectConfig.auth))
               \subseteq Declared(generateAuthConfig(projectConfig.auth)) \cup HandlerLocals
          /\ (generateAuthCode(projectConfig.auth) = <<>>)
               <=> (generateAuthConfig(projectConfig.auth) = <<>>)
    /\ (projectConfig.auth.defined /\ disk["src/index.ts"].state = "written") =>
          LET module == disk["src/index.ts"].content[1]
          IN  \A i \in DOMAIN module.app :
                module.app[i].handler = "proxy" =>
                  /\ Referenced(module.app[i].authCode)
                       \subseteq Declared(module.authDeclaration) \cup HandlerLocals
                  /\ (module.app[i].authCode = <<>>) <=> (module.authDeclaration = <<>>)

C9_Witness ==
    /\ projectConfig.auth.type = "apiKey"
    /\ ~Truthy(projectConfig.auth.headerName)
    /\ ~Truthy(projectConfig.auth.queryName)
    /\ Truthy(projectConfig.auth.cookieName)
    /\ disk["src/index.ts"].state = "written"
    /\ <<"apiKeyCookie">> \in Referenced(disk["src/index.ts"].content[1].app[2].authCode)

Happened(req, e) == \E i \in DOMAIN req.events : req.events[i] = e

\* every occurrence of event e in the request's history comes after an
\* occurrence of event before
Preceded(req, e, before) ==
    \A i \in DOMAIN req.events :
        req.events[i] = e => \E j \in 1..(i - 1) : req.events[j] = before

\* does the path match the pattern some route of the configuration is registered under
MatchesSomeRoute(path) ==
    \E i \in DOMAIN projectConfig.routes : Matches(routePath(projectConfig.routes[i]), path)

\* C3: the payment middleware is registered before every proxy route, a
\* request whose path matches a route pattern enters a route handler and
\* reaches upstream only after the payment check admitted it, and a request
\* the payment check rejected is answered 402 without a handler having run
\* or a fetch having been made.
C3_PaymentBeforeHandler ==
    /\ \A i \in DOMAIN app :
          app[i].handler = "proxy" =>
              \E j \in 1..(i - 1) : app[j].handler = "paymentMiddleware" /\ app[j].path = Star
    /\ \A r \in RequestIds :
          LET req == requests[r]
          IN  /\ Preceded(req, "handler", "paymentAdmitted")
              /\ Preceded(req, "fetch", "paymentAdmitted")
              /\ (req.pc # "idle" /\ MatchesSomeRoute(req.path)) =>
                    ~Happened(req, "paymentNotRequired")
              /\ Happened(req, "paymentRejected") =>
                    /\ req.pc = "responded"
                    /\ req.response[1].status = 402
                    /\ ~Happened(req, "handler")
                    /\ req.fetches = 0

C3_Witness ==
    \E r, o \in RequestIds :
        /\ Happened(requests[r], "paymentRejected")
        /\ requests[r].response[1].status = 402
        /\ Happened(requests[o], "paymentAdmitted")
        /\ Happened(requests[o], "fetch")

\* the status a request's own history leads to
OwnStatus(req) ==
    LET last == req.events[Len(req.events)]
    IN  CASE last = "paymentRejected" -> 402
          [] last = "notFound" -> 404
          [] last = "fetchThrew" -> 502
          [] last = "requestBodyFailed" -> 502
          [] last = "mirrored" -> req.upstream[1].status
          [] OTHER -> 500

\* C4: a request whose upstream fetch threw is answered 502 with the
\* diagnostic body, the process keeps listening, and every other request
\* can still take its next step and is answered by its own history alone.
C4_FetchFailureIsolated ==
    \A r \in RequestIds :
        Happened(requests[r], "fetchThrew") =>
            /\ requests[r].pc = "responded"
            /\ requests[r].response[1].status = 502
            /\ requests[r].response[1].error = "Failed to proxy request"
            /\ requests[r].response[1].message = "fetch failed"
            /\ bootPc = "listening"
            /\ exitCode = <<>>
            /\ \A o \in RequestIds \ {r} :
                  /\ requests[o].pc # "responded" => ENABLED RequestStep(o)
                  /\ requests[o].pc = "responded" =>
                        requests[o].response[1].status = OwnStatus(requests[o])

C4_Witness ==
    \E r, o \in RequestIds :
        /\ Happened(requests[r], "fetchThrew")
        /\ requests[r].response[1].status = 502
        /\ Happened(requests[o], "mirrored")
        /\ requests[o].response[1].status = 200
        /\ requests[o].events[Len(requests[o].events)] = "mirrored"

\* C5 (as claimed): a request in whose handler something other than the
\* upstream fetch failed - the base URL did not parse, the request body or
\* the response body could not be read - is answered 500 "Internal server
\* error".
C5_OtherFailuresAnswered500 ==
    \A r \in RequestIds :
        LET req == requests[r]
        IN  (\/ Happened(req, "requestBodyFailed")
             \/ Happened(req, "responseBodyFailed")
             \/ (Happened(req, "handler") /\ ~IsUrl(apiBaseUrl))) =>
                /\ req.pc = "responded"
                /\ req.response[1].status = 500
                /\ req.response[1].error = "Internal server error"

\* the required variables that are not set, in the order the module tests them
ExpectedMissing ==
    LET NotSet(n) == ~Truthy(processEnv[<<n>>])
    IN  SelectSeq(<<"FACILITATOR_URL", "ADDRESS", "NETWORK">>, NotSet)

\* C6: the process exits with status 1 exactly when one of FACILITATOR_URL,
\* ADDRESS, NETWORK is not set, having printed every one that is not; it
\* never exits over API_BASE_URL, whose fallback is the configured baseUrl;
\* and on exit nothing was registered and no request was ever received.
C6_StartupValidation ==
    /\ bootPc = "exited" =>
          /\ exitCode = <<1>>
          /\ stderr = ExpectedMissing
          /\ ExpectedMissing # <<>>
          /\ app = <<>>
          /\ \A r \in RequestIds : requests[r].pc = "idle"
    /\ bootPc \in {"auth", "app", "serve", "listening"} =>
          /\ ExpectedMissing = <<>>
          /\ exitCode = <<>>
          /\ Truthy(apiBaseUrl)
          /\ ~Truthy(processEnv[API_BASE_URL]) => apiBaseUrl = projectConfig.baseUrl
    /\ (app # <<>> \/ \E r \in RequestIds : requests[r].pc # "idle") =>
          ExpectedMissing = <<>>

C6_Witness ==
    /\ bootPc = "exited"
    /\ exitCode = <<1>>
    /\ stderr = <<"FACILITATOR_URL", "NETWORK">>
    /\ processEnv[API_BASE_URL] = Undef

\* C7: a request whose path matches no configured route pattern never
\* enters a route handler and causes no fetch, and is answered 404 with a
\* body listing every configured route's original path and price.
C7_UnmatchedPathIs404 ==
    \A r \in RequestIds :
        LET req == requests[r]
        IN  (req.pc # "idle" /\ ~MatchesSomeRoute(req.path)) =>
                /\ req.fetches = 0
                /\ ~Happened(req, "handler")
                /\ ~Happened(req, "paymentRejected")
                /\ req.pc = "responded" =>
                      /\ req.response[1].status = 404
                      /\ req.response[1].error = "Not Found"
                      /\ req.response[1].availableRoutes =
                            [i \in DOMAIN projectConfig.routes |->
                                [path |-> projectConfig.routes[i].path,
                                 price |-> projectConfig.routes[i].price]]

C7_Witness ==
    \E r \in RequestIds :
        /\ requests[r].path = <<"/", "other">>
        /\ requests[r].pc = "responded"
        /\ requests[r].response[1].status = 404
        /\ Len(requests[r].response[1].availableRoutes) = 2

(***************************************************************************)
(* Properties of the payment configuration                                 *)
(***************************************************************************)
\* the entries handed to paymentMiddleware by a generated module
PaymentEntries(module) ==
    LET i == CHOOSE j \in DOMAIN module.app : module.app[j].handler = "paymentMiddleware"
    IN  module.app[i].payment

\* the value the generated .env gives a variable
EnvValue(file, name) ==
    LET i == CHOOSE j \in DOMAIN file.head : file.head[j].kind = "assign" /\ file.head[j].name = name
    IN  file.head[i].value[1]

\* C11: the payment configuration of the generated server module has exactly
\* one effective entry per configured route: as many keys as config.routes
\* has routes, and for every route an entry under its normalized path with
\* that route's price and the network binding, which the generated .env sets
\* to the configured network.
C11_OneEntryPerRoute ==
    disk["src/index.ts"].state = "written" =>
        LET object == paymentConfigObject(PaymentEntries(disk["src/index.ts"].content[1]))
            routes == projectConfig.routes
        IN  /\ Cardinality(DOMAIN object) = Len(routes)
            /\ \A i \in DOMAIN routes :
                  /\ paymentPath(routes[i]) \in DOMAIN object
                  /\ object[paymentPath(routes[i])].price = routes[i].price
                  /\ object[paymentPath(routes[i])].network = <<"network">>
            /\ disk[".env"].state = "written" =>
                  EnvValue(disk[".env"].content[1], <<"NETWORK">>) = projectConfig.network

\* the amount typed at a price prompt
Amount(typed) == CHOOSE d \in Decimals : d \in Range(typed)

\* C12: in the payment configuration generated from the set-up's answers, the
\* entry of a route whose price prompt was answered carries that price (in
\* canonical form, "$" and the amount typed), whatever the default is; the
\* entry of a route whose price prompt was left empty carries exactly the
\* configuration's defaultPrice, the canonical form of the default typed.
C12_PricingPrecedence ==
    disk["src/index.ts"].state = "written" =>
        LET entries == PaymentEntries(disk["src/index.ts"].content[1])
        IN  /\ projectConfig.defaultPrice = <<"$", Amount(cli.defaultPrice)>>
            /\ Len(entries) = Len(cli.answers)
            /\ \A i \in DOMAIN cli.answers :
                  entries[i].price = IF cli.answers[i] = <<>>
                                     THEN projectConfig.defaultPrice
                                     ELSE <<"$", Amount(cli.answers[i])>>

C12_Witness ==
    /\ disk["src/index.ts"].state = "written"
    /\ cli.defaultPrice = <<" ", "$", "0.5", " ">>
    /\ cli.answers = << <<"0.01">>, <<>> >>
    /\ PaymentEntries(disk["src/index.ts"].content[1])[2].price = <<"$", "0.5">>

(***************************************************************************)
(* Properties of the files generateProject leaves behind                   *)
(***************************************************************************)
\* C17: generateProject always writes .env.example; it writes .env only when
\* config.auth is present, and with no auth configured no .env file is
\* created.
C17_EnvOnlyWithAuth ==
    /\ pc = "done" => disk[".env.example"].state = "written"
    /\ (pc = "done" /\ projectConfig.auth.defined) => disk[".env"].state = "written"
    /\ ~projectConfig.auth.defined => disk[".env"] = Absent

Present(file) == disk[file] # Absent

\* C20: generateProject creates outputDir/src first and then writes src/index.ts,
\* package.json, tsconfig.json, .env, .env.example, README.md one after the
\* other: when a write starts every earlier file is completely written and no
\* later file exists, so the files present always form a prefix of that
\* order, also after a failure.
C20_SequentialPrefix ==
    /\ (\E f \in OutputFiles : Present(f)) => "src" \in dirs
    /\ \A i, j \in DOMAIN FileOrder :
          (i < j /\ Present(FileOrder[j])) => disk[FileOrder[i]].state = "written"
    /\ pc \in OutputFiles =>
          \A i \in DOMAIN FileOrder :
             IF i < IndexOfFile(pc) THEN disk[FileOrder[i]].state = "written"
             ELSE disk[FileOrder[i]] = Absent
    /\ pc \in {"log", "done"} => \A f \in OutputFiles : disk[f].state = "written"

C20_Witness ==
    /\ pc = "failed"
    /\ disk[".env"].state = "written"
    /\ disk[".env.example"] = Partial
    /\ disk["README.md"] = Absent

(***************************************************************************)
(* Properties of route patterns and of the upstream URL                    *)
(***************************************************************************)
HasParameter(path) == "{id}" \in Range(path)

\* a pattern with its {name} segments written :name
ColonForm(path) == [i \in DOMAIN path |-> IF path[i] = "{id}" THEN ":id" ELSE path[i]]

\* C13: for every route whose pattern has {name} segments, the handler is
\* registered, and the payment entry keyed, under the pattern with each
\* {name} written :name; a request to the {id} route with 42 in its place that
\* the payment check admitted is forwarded with 42 at that position of the
\* upstream path.
C13_ParametersRewritten ==
    bootPc = "listening" =>
        /\ \A i \in DOMAIN projectConfig.routes :
              LET route == projectConfig.routes[i]
              IN  HasParameter(route.path) =>
                     /\ \E j \in DOMAIN app :
                           /\ app[j].handler = "proxy"
                           /\ app[j].comment = route.path
                           /\ app[j].path = ColonForm(route.path)
                     /\ PaymentEntries(Module)[i].key = ColonForm(route.path)
        /\ \A r \in RequestIds :
              LET req == requests[r]
              IN  (/\ \E i \in DOMAIN projectConfig.routes :
                         projectConfig.routes[i].path = <<"/", "users", "/", "{id}">>
                   /\ req.path = <<"/", "users", "/", "42">>
                   /\ req.pc = "responded"
                   /\ req.response[1].status # 402
                   /\ IsUrl(apiBaseUrl)) =>
                      /\ Len(req.sent) = 1
                      /\ req.sent[1].url.pathname[Len(req.sent[1].url.pathname)] = "42"

\* C14: a request to a parameterized route with nothing in the place of the
\* named parameter is answered 400 with a body naming the parameter, without
\* an upstream fetch, and the process keeps running.
C14_MissingParameterIs400 ==
    \A r \in RequestIds :
        LET req == requests[r]
        IN  (/\ \E i \in DOMAIN projectConfig.routes :
                   projectConfig.routes[i].path = <<"/", "users", "/", "{id}">>
             /\ req.path = <<"/", "users", "/">>
             /\ req.pc # "idle") =>
                /\ req.fetches = 0
                /\ exitCode = <<>>
                /\ req.pc = "responded" =>
                      /\ req.response[1].status = 400
                      /\ req.response[1].message = "id"

\* the case of C15: the single route /api/*, the configured base URL
\* https://api.example.com in effect, a GET to /api/items that was admitted
C15_Case(req) ==
    /\ projectConfig.routes = <<Route(<<"/", "api", "/", "*">>, <<"$", "0.001">>)>>
    /\ projectConfig.baseUrl = "https://api.example.com"
    /\ ~Truthy(processEnv[API_BASE_URL])
    /\ req.path = <<"/", "api", "/", "items">>
    /\ req.method = "GET"
    /\ Happened(req, "paymentAdmitted")

\* C15 (as claimed): in that case exactly one upstream request is made, a
\* GET to https://api.example.com/items.
C15_UpstreamDropsRoutePrefix ==
    \A r \in RequestIds :
        C15_Case(requests[r]) =>
            requests[r].sent =
                <<[method |-> "GET",
                   url |-> Url("https:", "api.example.com", <<"/", "items">>, <<>>)]>>

\* C15 (amended): in that case exactly one upstream request is made, a GET
\* to https://api.example.com/api/items: the whole incoming path is kept.
C15_UpstreamKeepsFullPath ==
    \A r \in RequestIds :
        C15_Case(requests[r]) =>
            requests[r].sent =
                <<[method |-> "GET",
                   url |-> Url("https:", "api.example.com", <<"/", "api", "/", "items">>, <<>>)]>>

C15_Witness ==
    \E r \in RequestIds :
        /\ C15_Case(requests[r])
        /\ requests[r].pc = "responded"
        /\ Happened(requests[r], "mirrored")
        /\ Len(requests[r].sent) = 1

\* C16: the URL of every upstream request has the origin of the upstream
\* base URL, as path the base URL's path, closed by a slash, followed by the
\* incoming path without its leading slash, and as query the incoming
\* query parameters in their order, duplicates included.
C16_TargetUrlJoinsBaseAndPath ==
    \A r \in RequestIds :
        \A k \in DOMAIN requests[r].sent :
            LET req == requests[r]
                url == req.sent[k].url
                base == parseUrl(apiBaseUrl)
                closed == IF base.pathname[Len(base.pathname)] = "/"
                          THEN base.pathname ELSE base.pathname \o <<"/">>
            IN  /\ url.protocol = base.protocol
                /\ url.host = base.host
                /\ url.pathname = closed \o Tail(req.path)
                /\ url.search = req.query

(***************************************************************************)
(* Properties of a request's life                                          *)
(***************************************************************************)
\* C18: a request causes at most one upstream fetch; when that fetch fails
\* the request is answered 502 in the same step, and nothing happens to it
\* afterwards.
C18_NoRetry ==
    \A r \in RequestIds :
        LET req == requests[r]
        IN  /\ req.fetches <= 1
            /\ Len(req.sent) = req.fetches
            /\ Happened(req, "fetchThrew") =>
                  /\ req.pc = "responded"
                  /\ req.response[1].status = 502
                  /\ req.events[Len(req.events)] = "fetchThrew"

C18_Witness ==
    \E r \in RequestIds :
        /\ requests[r].method = "POST"
        /\ Happened(requests[r], "fetchThrew")
        /\ requests[r].fetches = 1
        /\ requests[r].pc = "responded"

\* the events a request ends with
TerminalEvents ==
    {"paymentRejected", "notFound", "mirrored", "fetchThrew", "requestBodyFailed",
     "responseBodyFailed"}

\* a request has exactly one response, of one of the terminal kinds, exactly
\* when it is over
OneResponse(req) ==
    /\ Len(req.response) <= 1
    /\ (req.pc = "responded") <=> (Len(req.response) = 1)
    /\ req.pc = "responded" =>
          /\ req.response[1].status \in
                 {402, 404, 502, 500} \cup {u.status : u \in UpstreamResponses}
          /\ Cardinality({i \in DOMAIN req.events : req.events[i] \in TerminalEvents}) <= 1
          /\ (\/ req.events[Len(req.events)] \in TerminalEvents
              \/ (req.events[Len(req.events)] = "handler" /\ req.response[1].status = 500))

Settled(req) == Happened(req, "fetchReturned") \/ Happened(req, "fetchThrew")

Count(req, e) == Cardinality({i \in DOMAIN req.events : req.events[i] = e})

\* the routes of the configuration whose pattern matches a path
MatchingRoutes(path) ==
    {i \in DOMAIN projectConfig.routes : Matches(routePath(projectConfig.routes[i]), path)}

\* C21: the route handlers are registered in the order of config.routes and
\* the 404 fallback after all of them; a request is handled by the handler of
\* the first route of the list whose pattern matches it, no other handler and
\* not the fallback runs for it, and the fallback runs only for a path no
\* route matches.
C21_FirstMatchHandles ==
    /\ app # <<>> =>
          /\ Len(app) = Len(projectConfig.routes) + 2
          /\ \A i \in DOMAIN projectConfig.routes :
                /\ app[i + 1].handler = "proxy"
                /\ app[i + 1].path = routePath(projectConfig.routes[i])
                /\ app[i + 1].comment = projectConfig.routes[i].path
          /\ app[Len(app)].handler = "notFound"
    /\ \A r \in RequestIds :
          LET req == requests[r]
              hits == MatchingRoutes(req.path)
          IN  /\ Count(req, "handler") + Count(req, "notFound") <= 1
              /\ Happened(req, "handler") =>
                    /\ hits # {}
                    /\ req.at = 1 + (CHOOSE i \in hits : \A j \in hits : i <= j)
              /\ Happened(req, "notFound") => hits = {} /\ req.at = Len(app)

\* a catch-all placed first took a request that a later route names
C21_Witness ==
    /\ Len(projectConfig.routes) = 2
    /\ projectConfig.routes[1].path = SlashStar
    /\ \E r \in RequestIds :
          /\ requests[r].pc = "responded"
          /\ requests[r].path = projectConfig.routes[2].path
          /\ Happened(requests[r], "handler")
          /\ requests[r].at = 2
          /\ app[requests[r].at].comment = SlashStar

\* the proxy registrations of an emitted module, in the order of the text
IsProxy(registration) == registration.handler = "proxy"

ProxyRegistrations(module) == SelectSeq(module.app, IsProxy)

\* C27: in the emitted module the pattern a route's handler is registered
\* under is the key of that route's payment entry; both are the route path as
\* configured, except that "/*" is written "*" in both places, so every
\* handler pattern is a key of the payment configuration.
C27_HandlerPathIsPaymentKey ==
    disk["src/index.ts"].state = "written" =>
        LET module == disk["src/index.ts"].content[1]
            handlers == ProxyRegistrations(module)
            entries == PaymentEntries(module)
        IN  /\ Len(handlers) = Len(projectConfig.routes)
            /\ Len(entries) = Len(projectConfig.routes)
            /\ \A i \in DOMAIN projectConfig.routes :
                  LET configured == projectConfig.routes[i].path
                      expected == IF configured = SlashStar THEN Star ELSE configured
                  IN  /\ handlers[i].path = expected
                      /\ entries[i].key = expected
            /\ \A i \in DOMAIN handlers :
                  handlers[i].path \in DOMAIN paymentConfigObject(entries)

\* a module was emitted for a whole-path wildcard and an ordinary route
C27_Witness ==
    /\ disk["src/index.ts"].state = "written"
    /\ Len(projectConfig.routes) = 2
    /\ projectConfig.routes[1].path = SlashStar
    /\ projectConfig.routes[2].path # SlashStar
    /\ ProxyRegistrations(disk["src/index.ts"].content[1])[1].path = Star

(***************************************************************************)
(* Properties of the placement of an API key                               *)
(***************************************************************************)
\* header, then query, then cookie
ExpectedPlacement(auth) ==
    IF Truthy(auth.headerName) THEN "header"
    ELSE IF Truthy(auth.queryName) THEN "query"
    ELSE IF Truthy(auth.cookieName) THEN "cookie"
    ELSE "none"

\* the placement a declaration fragment declares a name binding for
DeclaredPlacement(declaration) ==
    IF declaration = <<>> THEN "none"
    ELSE CASE declaration[1].bind = <<"apiKeyHeader">> -> "header"
           [] declaration[1].bind = <<"apiKeyQuery">> -> "query"
           [] declaration[1].bind = <<"apiKeyCookie">> -> "cookie"
           [] OTHER -> "other"

\* the placement an injection fragment writes to
InjectedPlacement(injection) ==
    IF injection = <<>> THEN "none"
    ELSE CASE injection[1].op = "setHeader" /\ injection[1].name = <<"apiKeyHeader">> -> "header"
           [] injection[1].op = "appendQuery" /\ injection[1].name = <<"apiKeyQuery">> -> "query"
           [] injection[1].op = "appendCookie" /\ injection[1].name = <<"apiKeyCookie">> -> "cookie"
           [] OTHER -> "other"

\* the placement the auth section of an environment file names
EnvPlacement(section) ==
    IF section = <<>> THEN "none"
    ELSE CASE \E i \in DOMAIN section : section[i].name = <<"API_KEY_HEADER">> -> "header"
           [] \E i \in DOMAIN section : section[i].name = <<"API_KEY_QUERY">> -> "query"
           [] \E i \in DOMAIN section : section[i].name = <<"API_KEY_COOKIE">> -> "cookie"
           [] OTHER -> "other"

\* C28: for apiKey auth, the declaration and the injection of the emitted
\* module and the auth sections of .env and .env.example all use one
\* placement, the first populated of headerName, queryName, cookieName; with
\* none populated all four are empty.
C28_OnePlacementEverywhere ==
    (projectConfig.auth.defined /\ projectConfig.auth.type = "apiKey") =>
        LET expected == ExpectedPlacement(projectConfig.auth)
        IN  /\ disk["src/index.ts"].state = "written" =>
                LET module == disk["src/index.ts"].content[1]
                IN  /\ DeclaredPlacement(module.authDeclaration) = expected
                    /\ \A i \in DOMAIN module.app :
                          module.app[i].handler = "proxy" =>
                              InjectedPlacement(module.app[i].authCode) = expected
                    /\ expected = "none" =>
                          /\ module.authDeclaration = <<>>
                          /\ \A i \in DOMAIN module.app : module.app[i].authCode = <<>>
            /\ disk[".env"].state = "written" =>
                  EnvPlacement(disk[".env"].content[1].authSection) = expected
            /\ disk[".env.example"].state = "written" =>
                  EnvPlacement(disk[".env.example"].content[1].authSection) = expected

\* all the files of an apiKey configuration that names a header, a query
\* parameter and a cookie were written
C28_Witness ==
    /\ pc = "done"
    /\ projectConfig.auth.defined
    /\ projectConfig.auth.type = "apiKey"
    /\ Truthy(projectConfig.auth.headerName)
    /\ Truthy(projectConfig.auth.queryName)
    /\ Truthy(projectConfig.auth.cookieName)
    /\ InjectedPlacement(ProxyRegistrations(disk["src/index.ts"].content[1])[1].authCode)
          = "header"
    /\ EnvPlacement(disk[".env.example"].content[1].authSection) = "header"

(***************************************************************************)
(* Properties of custom keys that sanitise to one name                     *)
(***************************************************************************)
\* uppercase(key) with every character outside [A-Z0-9] replaced by "_"
Sanitized(key) ==
    [i \in DOMAIN key |->
        LET c == UpperChar(key[i]) IN IF c \in UpperAlnum THEN c ELSE "_"]

\* two distinct keys of the map, by position, that sanitise to the same name
Colliding(map) ==
    { <<i, j>> \in (DOMAIN map.entries) \X (DOMAIN map.entries) :
        /\ i < j
        /\ map.entries[i].key # map.entries[j].key
        /\ Sanitized(map.entries[i].key) = Sanitized(map.entries[j].key) }

\* the positions of the statements of a fragment that declare a binding
DeclarationsOf(declaration, bind) ==
    {k \in DOMAIN declaration :
        declaration[k].op \in {"constEnv", "constEnvOr"} /\ declaration[k].bind = bind}

\* the positions of the lines of an auth section that assign a variable
AssignmentsOf(section, name) ==
    {k \in DOMAIN section : section[k].kind = "assign" /\ section[k].name = name}

\* every collision of a map shows in the three files that were written
CollisionEmitted(map, prefix) ==
    \A p \in Colliding(map) :
        LET name == <<prefix>> \o Sanitized(map.entries[p[1]].key)
        IN  /\ disk["src/index.ts"].state = "written" =>
                  Cardinality(DeclarationsOf(
                      disk["src/index.ts"].content[1].authDeclaration, name)) = 2
            /\ disk[".env"].state = "written" =>
                  Cardinality(AssignmentsOf(disk[".env"].content[1].authSection, name)) = 2
            /\ disk[".env.example"].state = "written" =>
                  Cardinality(AssignmentsOf(
                      disk[".env.example"].content[1].authSection, name)) = 2

\* C26: colliding custom keys are not detected.  The variable of a custom key
\* is CUSTOM_HEADER_ or CUSTOM_QUERY_ followed by the sanitised key; for two
\* distinct keys of one map that sanitise to one name generateServerFile does
\* not throw, the emitted module declares that binding twice, and .env and
\* .env.example each assign that variable twice.
C26_CollisionsGoUndetected ==
    (projectConfig.auth.defined /\ projectConfig.auth.type = "custom") =>
        /\ \A k \in DOMAIN thrown :
              thrown[k].at = "generateServerFile" => projectConfig.routes = <<>>
        /\ CollisionEmitted(projectConfig.auth.customHeaders, "CUSTOM_HEADER_")
        /\ CollisionEmitted(projectConfig.auth.customQueryParams, "CUSTOM_QUERY_")

\* generation ran to its end for a map with the keys X-a and x_A
C26_Witness ==
    /\ pc = "done"
    /\ logged
    /\ projectConfig.auth.defined
    /\ projectConfig.auth.type = "custom"
    /\ Colliding(projectConfig.auth.customHeaders) # {}
    /\ Colliding(projectConfig.auth.customQueryParams) # {}
    /\ Cardinality(AssignmentsOf(disk[".env"].content[1].authSection,
                                 <<"CUSTOM_QUERY_", "K", "1">>)) = 2
    /\ Cardinality(DeclarationsOf(disk["src/index.ts"].content[1].authDeclaration,
                                  <<"CUSTOM_HEADER_", "X", "_", "A">>)) = 2

(***************************************************************************)
(* Properties of what the outputs reveal                                   *)
(***************************************************************************)
\* a map with its values blanked
SecretFreeMap(map) ==
    [present |-> map.present,
     entries |-> [i \in DOMAIN map.entries |-> [key |-> map.entries[i].key, value |-> ""]]]

\* an AuthConfig with its secret values blanked: value, username, password
\* and the values of customHeaders and customQueryParams
SecretFree(auth) ==
    [auth EXCEPT !.value = Undef, !.username = Undef, !.password = Undef,
                 !.customHeaders = SecretFreeMap(auth.customHeaders),
                 !.customQueryParams = SecretFreeMap(auth.customQueryParams)]

\* the records that differ from the one being generated in secret values only
SecretVariants ==
    { [projectConfig EXCEPT !.auth = a] :
        a \in { b \in AuthConfigs \cup {AuthUndefined} :
                  SecretFree(b) = SecretFree(projectConfig.auth) } }

\* C30: a record that differs from the generated one only in secret values
\* gives the same .env.example, README.md, package.json and tsconfig.json,
\* and for apiKey, bearer and basic auth the same src/index.ts; for custom
\* auth the module carries each value as the literal fallback of its binding.
C30_OnlyEnvHoldsSecrets ==
    /\ \A other \in SecretVariants :
          /\ disk[".env.example"].state = "written" =>
                disk[".env.example"].content[1] = generateEnvExample(other)
          /\ disk["README.md"].state = "written" =>
                disk["README.md"].content[1] = generateReadme(other)
          /\ disk["package.json"].state = "written" =>
                disk["package.json"].content[1] = generatePackageJson(other)
          /\ (/\ disk["src/index.ts"].state = "written"
              /\ projectConfig.auth.defined
              /\ projectConfig.auth.type \in {"apiKey", "bearer", "basic"}) =>
                disk["src/index.ts"].content[1] = generateServerFile(other).value[1]
    /\ (/\ disk["src/index.ts"].state = "written"
        /\ projectConfig.auth.defined
        /\ projectConfig.auth.type = "custom") =>
          \A i \in DOMAIN projectConfig.auth.customHeaders.entries :
              \E k \in DOMAIN disk["src/index.ts"].content[1].authDeclaration :
                  LET s == disk["src/index.ts"].content[1].authDeclaration[k]
                  IN  /\ s.op = "constEnvOr"
                      /\ s.lit = projectConfig.auth.customHeaders.entries[i].value

\* all files of a bearer record were written, and another token would have
\* changed .env and nothing else
C30_Witness ==
    /\ pc = "done"
    /\ projectConfig.auth.defined
    /\ projectConfig.auth.type = "bearer"
    /\ \E other \in SecretVariants :
          /\ other.auth.value # projectConfig.auth.value
          /\ generateEnv(other) # disk[".env"].content[1]
          /\ generateServerFile(other).value[1] = disk["src/index.ts"].content[1]
          /\ generateEnvExample(other) = disk[".env.example"].content[1]

(***************************************************************************)
(* Properties of the request sent upstream                                 *)
(***************************************************************************)
\* the names of the headers the injection fragment of a handler writes to
AuthHeaderNames(registration) ==
    UNION { CASE s.op = "setHeader" -> {headerName(<<bound(s.name)>>)}
              [] s.op \in {"appendCookie", "setBearer", "setBasic"} -> {headerName(<<s.lit>>)}
              [] s.op = "forEachSetHeader" ->
                    {headerName(e.name) : e \in Range(customEntries(s.obj))}
              [] OTHER -> {} : s \in Range(registration.authCode) }

\* C22: the headers of every upstream call are the headers of the incoming
\* request without host and connection, a host header naming the host of the
\* upstream base URL, and the headers the injection fragment writes; every
\* other incoming header is passed on with its value, and nothing else is
\* sent.
C22_ForwardedHeaders ==
    \A r \in RequestIds :
        \A k \in DOMAIN requests[r].forwarded :
            LET req == requests[r]
                out == req.forwarded[k]
                authNames == AuthHeaderNames(app[req.at])
                dropped == {<<"host">>, <<"connection">>}
            IN  /\ \A i, j \in DOMAIN out : out[i].name = out[j].name => i = j
                /\ \A i \in DOMAIN req.headers :
                      req.headers[i].name \notin dropped \cup authNames =>
                          req.headers[i] \in Range(out)
                /\ \A i \in DOMAIN out :
                      \/ out[i].name \in authNames
                      \/ out[i] = Header(<<"host">>, <<parseUrl(apiBaseUrl).host>>)
                      \/ out[i].name \notin dropped /\ out[i] \in Range(req.headers)
                /\ \E i \in DOMAIN out : out[i].name = <<"host">>

\* a request with host, connection and five more headers was forwarded by a
\* handler that injects a bearer token
C22_Witness ==
    \E r \in RequestIds :
        /\ requests[r].pc = "responded"
        /\ Len(requests[r].forwarded) = 1
        /\ Len(requests[r].headers) = 7
        /\ projectConfig.auth.type = "bearer"
        /\ Header(<<"authorization">>, <<"Bearer ", "t0k3n">>) \in Range(requests[r].forwarded[1])
        /\ Header(<<"cookie">>, <<"sid=1">>) \in Range(requests[r].forwarded[1])

\* the value of a header of a sequence of headers, <<>> when there is none
ValueOf(headers, name) ==
    IF \E i \in DOMAIN headers : headers[i].name = name
    THEN headers[CHOOSE i \in DOMAIN headers : headers[i].name = name].value
    ELSE <<>>

\* C24: with the API key placed in a cookie and the key set, the Cookie
\* header sent upstream is "<existing>; <cookieName>=<secret>" when the
\* caller sent a non-empty Cookie header and "<cookieName>=<secret>"
\* otherwise; the caller's cookies are never dropped, also when no key is set.
C24_CookieAppended ==
    (projectConfig.auth.defined /\ ExpectedPlacement(projectConfig.auth) = "cookie"
       /\ projectConfig.auth.type = "apiKey") =>
        \A r \in RequestIds :
            \A k \in DOMAIN requests[r].forwarded :
                LET existing == ValueOf(requests[r].headers, <<"cookie">>)
                    sent == ValueOf(requests[r].forwarded[k], <<"cookie">>)
                    cookieName == OrElse(processEnv[<<"API_KEY_COOKIE">>],
                                         projectConfig.auth.cookieName)
                    secret == processEnv[<<"API_KEY">>]
                IN  /\ IsPrefix(existing, sent)
                    /\ Truthy(secret) /\ existing # <<>> =>
                          sent = existing \o <<"; ", cookieName, "=", secret>>
                    /\ Truthy(secret) /\ existing = <<>> =>
                          sent = <<cookieName, "=", secret>>
                    /\ ~Truthy(secret) => sent = existing

\* the key was appended to the cookie a caller sent
C24_Witness ==
    \E r \in RequestIds :
        /\ requests[r].pc = "responded"
        /\ projectConfig.auth.type = "apiKey"
        /\ Len(requests[r].forwarded) = 1
        /\ ValueOf(requests[r].headers, <<"cookie">>) = <<"sid=1">>
        /\ ValueOf(requests[r].forwarded[1], <<"cookie">>)
              = <<"sid=1", "; ", "session", "=", "t0k3n">>

\* the value a custom entry is injected with: its variable, or the value
\* given at generation
CustomValue(prefix, entry) ==
    OrElse(processEnv[<<prefix>> \o Sanitized(entry.key)], entry.value)

TruthyCustomQuery(entry) == Truthy(CustomValue("CUSTOM_QUERY_", entry))

\* the header the injection fragment is to write for the configured
\* authentication, as <<name, value>>, for the credentials that are set
ExpectedAuthHeaders ==
    LET auth == projectConfig.auth
    IN  CASE auth.type = "apiKey" /\ ExpectedPlacement(auth) = "header" ->
               IF Truthy(processEnv[<<"API_KEY">>])
               THEN {Header(headerName(<<OrElse(processEnv[<<"API_KEY_HEADER">>],
                                                auth.headerName)>>),
                            <<processEnv[<<"API_KEY">>]>>)}
               ELSE {}
          [] auth.type = "bearer" ->
               IF Truthy(processEnv[<<"BEARER_TOKEN">>])
               THEN {Header(<<"authorization">>, <<"Bearer ", processEnv[<<"BEARER_TOKEN">>]>>)}
               ELSE {}
          [] auth.type = "basic" ->
               IF /\ Truthy(processEnv[<<"BASIC_AUTH_USERNAME">>])
                  /\ Truthy(processEnv[<<"BASIC_AUTH_PASSWORD">>])
               THEN {Header(<<"authorization">>,
                            <<"Basic ", "base64(", processEnv[<<"BASIC_AUTH_USERNAME">>], ":",
                              processEnv[<<"BASIC_AUTH_PASSWORD">>], ")">>)}
               ELSE {}
          [] auth.type = "custom" ->
               {Header(headerName(e.key), <<CustomValue("CUSTOM_HEADER_", e)>>) :
                   e \in {x \in Range(auth.customHeaders.entries) :
                             Truthy(CustomValue("CUSTOM_HEADER_", x))}}
          [] OTHER -> {}

\* the query parameters the injection fragment is to append, in order
ExpectedAuthQuery ==
    LET auth == projectConfig.auth
    IN  CASE auth.type = "apiKey" /\ ExpectedPlacement(auth) = "query" ->
               IF Truthy(processEnv[<<"API_KEY">>])
               THEN << << <<OrElse(processEnv[<<"API_KEY_QUERY">>], auth.queryName)>>,
                          processEnv[<<"API_KEY">>] >> >>
               ELSE <<>>
          [] auth.type = "custom" ->
               [i \in DOMAIN SelectSeq(auth.customQueryParams.entries, TruthyCustomQuery) |->
                   LET e == SelectSeq(auth.customQueryParams.entries, TruthyCustomQuery)[i]
                   IN  <<e.key, CustomValue("CUSTOM_QUERY_", e)>>]
          [] OTHER -> <<>>

\* the names of the headers the configured authentication uses, whether or
\* not the credential is set
ConfiguredAuthNames ==
    LET auth == projectConfig.auth
    IN  CASE auth.type = "apiKey" /\ ExpectedPlacement(auth) = "header" ->
               {headerName(<<OrElse(processEnv[<<"API_KEY_HEADER">>], auth.headerName)>>)}
          [] auth.type \in {"bearer", "basic"} -> {<<"authorization">>}
          [] auth.type = "custom" ->
               {headerName(e.key) : e \in Range(auth.customHeaders.entries)}
          [] OTHER -> {}

\* C29: the injection acts on the copied headers and query.  A header it
\* sets is sent once, with the injected value, whatever the caller sent under
\* that name; an injected query parameter follows the caller's parameters,
\* which are all kept; and with the credential empty the caller's own header
\* and parameters are sent unchanged.
C29_InjectionAfterCopy ==
    projectConfig.auth.defined =>
        \A r \in RequestIds :
            \A k \in DOMAIN requests[r].forwarded :
                LET req == requests[r]
                    out == req.forwarded[k]
                IN  /\ \A h \in ExpectedAuthHeaders :
                          /\ h \in Range(out)
                          /\ Cardinality({i \in DOMAIN out : out[i].name = h.name}) = 1
                    /\ \A n \in ConfiguredAuthNames :
                          (\A h \in ExpectedAuthHeaders : h.name # n) =>
                              ValueOf(out, n) = ValueOf(req.headers, n)
                    /\ req.sent[k].url.search = req.query \o ExpectedAuthQuery

\* a caller's x-a header was replaced and a k1 parameter was added to the
\* caller's own
C29_Witness ==
    \E r \in RequestIds :
        /\ requests[r].pc = "responded"
        /\ projectConfig.auth.type = "custom"
        /\ Len(requests[r].forwarded) = 1
        /\ ValueOf(requests[r].headers, <<"x", "-", "a">>) = <<"caller">>
        /\ ValueOf(requests[r].forwarded[1], <<"x", "-", "a">>) = <<"h1">>
        /\ requests[r].sent[1].url.search =
              << <<<<"api_key">>, "caller">>, <<<<"k", "1">>, "caller">>, <<<<"k", "1">>, "q1">> >>

(***************************************************************************)
(* Properties of a start without secrets                                   *)
(***************************************************************************)
\* the variables the declaration fragment reads a secret from
SecretNames ==
    {s.env : s \in {t \in Range(Module.authDeclaration) : t.op \in {"constEnv", "constEnvOr"}}}
        \ {<<"API_KEY_HEADER">>, <<"API_KEY_QUERY">>, <<"API_KEY_COOKIE">>}

\* C25: for every kind of authentication, when the variable of a secret is
\* absent at start-up the declaration fragment prints a warning and the
\* process goes on to listen; and with every secret absent the requests are
\* forwarded without a credential, their headers and query as the caller
\* sent them.
C25_MissingSecretWarnsOnly ==
    projectConfig.auth.defined =>
        /\ (\E n \in SecretNames : ~Truthy(processEnv[n])) =>
              /\ bootPc \in {"app", "serve", "listening"} => warnings # {}
              /\ bootPc # "exited"
              /\ exitCode = <<>>
        /\ (SecretNames # {} /\ \A n \in SecretNames : ~Truthy(processEnv[n])) =>
              \A r \in RequestIds :
                  \A k \in DOMAIN requests[r].forwarded :
                      /\ \A n \in ConfiguredAuthNames \cup {<<"cookie">>} :
                            ValueOf(requests[r].forwarded[k], n) = ValueOf(requests[r].headers, n)
                      /\ requests[r].sent[k].url.search = requests[r].query

(***************************************************************************)
(* Properties of the response handed back                                  *)
(***************************************************************************)
\* C23: a request whose upstream fetch returned a response is answered with
\* that response's status, status text, headers and body, whatever the
\* status; and the handler's own 502 is given only to a request whose fetch
\* threw.
C23_UpstreamResponseMirrored ==
    \A r \in RequestIds :
        LET req == requests[r]
        IN  req.pc = "responded" =>
                /\ Happened(req, "fetchReturned") =>
                      /\ req.response[1].status = req.upstream[1].status
                      /\ req.response[1].upstream = req.upstream
                /\ req.response[1].error = "Failed to proxy request" =>
                      Happened(req, "fetchThrew")

====
